---- MODULE Spec2Model ----
(***************************************************************************)
(* A model of the rpdo crate: the error codec (src/src/error.rs), the wire *)
(* codec (src/src/comm.rs), the shared register context                    *)
(* (src/src/context.rs), the host dispatcher (src/src/host.rs) and the     *)
(* stream client and server processor (src/src/io.rs).                     *)
(*                                                                         *)
(* Conventions.  A Rust Vec<u8> or byte slice is a sequence of numbers in  *)
(* 0..255.  A Rust Result is a record [tag |-> "Ok", val |-> v] or         *)
(* [tag |-> "Err", err |-> e]; a call that panics (unwinds or aborts) is   *)
(* [tag |-> "Panic"].  An Option is [some |-> FALSE] or                    *)
(* [some |-> TRUE, val |-> v].  Register i of the code (0-based) is        *)
(* element i + 1 of the sequence data.                                     *)
(***************************************************************************)
EXTENDS Integers, Sequences, FiniteSets, TLC

VARIABLES
    \* context::Basic
    data,                   \* Basic.data: the registers, a sequence of byte sequences
    register_flexible,      \* Basic.register_flexible
    register_size,          \* the register_size argument Basic::new was given
    overflow_checks,        \* build profile: TRUE when integer overflow checks are compiled in
    ctx_call,               \* the last direct set_bytes / get_bytes call and its result
    last_set,               \* the last successful direct set_bytes call
    \* error codec
    err_in,                 \* an Error value
    err_wire,               \* Some(its encoding as bytes), once encoded
    err_out,                \* Some(the Error decoded from err_wire), once decoded
    \* host::Host
    host_id,                \* Host.id
    next_frame_id,          \* HostInner.next_frame_id
    custom_command_handler, \* TRUE when Host.custom_command_handler is Some
    host_call,              \* the last process_frame call: its arguments, the state before, its result
    \* io::SimpleClient and io::SimpleServerProcessor on the two directions of one stream
    request_id,             \* SimpleClient.request_id
    target_id,              \* SimpleClient.target_id
    client,                 \* the client's current or last call: where it stands, its result
    prev_write,             \* Some(register, offset, data) while the call before was a write_register that returned Ok
    c2s,                    \* the bytes written by the client and not yet read by the server
    s2c,                    \* the bytes written by the server and not yet read by the client
    server,                 \* "running", or how the process_next loop ended
    srv_call,               \* the last process_next call: what it read, wrote and returned
    \* comm::Packet on a byte stream
    pkt_frame,              \* the Frame of a Packet to write
    pkt_payload,            \* the data that follows the packet on the stream
    pkt_wire,               \* the bytes on the stream, and whether Packet::write_to wrote them
    pkt_read,               \* Some(what Packet::read_from made of the stream), once read
    \* threads that share one context or one HostInner through cloned handles
    thr_pc,                 \* where each thread stands in its call
    thr_local,              \* each thread's local variables and, at the end, its result
    reg_lock,               \* per register, the holder of its Mutex, or Free
    created,                \* the frames create_frame has returned, in the order of return
    \* io::UdpStream
    peer,                   \* UdpStream.peer
    mtu,                    \* UdpStream.mtu
    read_buffer,            \* UdpStream.read_buffer
    write_buffer,           \* UdpStream.write_buffer
    unflushed,              \* the bytes passed to write since the last call of flush
    socket_sent,            \* the datagrams handed to UdpSocket::send_to, in order
    udp_call,               \* the last call on the UdpStream: the state before it, its result
    socket_queue,           \* the datagrams that have arrived at the UdpSocket and wait for recv_from
    peer_request_id         \* SimpleClient.request_id of each client that sends to the UdpSocket

ctxVars == <<data, register_flexible, register_size, overflow_checks>>
ctxCallVars == <<ctx_call, last_set>>
errVars == <<err_in, err_wire, err_out>>
hostVars == <<host_id, next_frame_id, custom_command_handler, host_call>>
ioVars == <<request_id, target_id, client, prev_write, c2s, s2c, server, srv_call>>
pktVars == <<pkt_frame, pkt_payload, pkt_wire, pkt_read>>
thrVars == <<thr_pc, thr_local, reg_lock, created>>
udpVars == <<peer, mtu, read_buffer, write_buffer, unflushed, socket_sent, udp_call,
            socket_queue, peer_request_id>>
auxVars == <<pktVars, thrVars, udpVars>>
vars == <<ctxVars, ctxCallVars, errVars, hostVars, ioVars, auxVars>>

----------------------------------------------------------------------------
(* Bounds of the model.                                                    *)

\* Basic::new is given register_count in 1..MaxRegs.
MaxRegs == 2
\* Basic::new is given register_size in 0..MaxRegSize.
MaxRegSize == 1
\* The data of a write has at most MaxData bytes.
MaxData == 1
\* The message of an Io, Packer or Failed error has at most MaxMsg bytes.
MaxMsg == 3
\* A run of the context specification makes at most MaxCalls calls.
MaxCalls == 2
\* A client makes at most MaxRequests calls on its stream.
MaxRequests == 2
\* Concurrent writers write WriteLen bytes each.
WriteLen == 2
\* Each thread that shares a host creates at most MaxCreated frames.
MaxCreated == 2
\* A UdpStream has an mtu of at most MaxMtu, unless it keeps the default.
MaxMtu == 2
\* A run makes at most MaxUdpCalls calls on a UdpStream.
MaxUdpCalls == 5
\* Host ids of frames (source, target) are in 0..MaxHostId.
MaxHostId == 2
\* A host has created at most MaxFrames frames before the call that is examined.
MaxFrames == 1

\* Offsets of calls: up to one past the end of a freshly created register.
Offsets == 0..(register_size + 1)
\* Read sizes: 0 (read to the end) up to the longest write.
Sizes == 0..MaxData
\* Register indices of calls: every register of the bank, and the first index past it.
RegisterIds == 0..Len(data)

\* The data of the n-th call that writes, of length len: bytes that differ from
\* zero, from each other and from those of every other call.
DataOf(n, len) == [i \in 1..len |-> 16 * n + i]
\* The byte values of error messages: ASCII 'A' and 0xFF, which no UTF-8 text holds.
MsgBytes == {65, 255}

----------------------------------------------------------------------------
(* Rust values.                                                            *)

Ok(v) == [tag |-> "Ok", val |-> v]
Err(e) == [tag |-> "Err", err |-> e]
Panic == [tag |-> "Panic"]
None == [some |-> FALSE]
Some(v) == [some |-> TRUE, val |-> v]

\* No call made yet.
NoCall == [op |-> "none", n |-> 0]

\* The value () of a call that returns Result<()>.
Unit == <<>>

IsOk(r) == r.tag = "Ok"
IsErr(r) == r.tag = "Err"

Min(a, b) == IF a < b THEN a ELSE b
Max(a, b) == IF a < b THEN b ELSE a

\* All sequences over S of length at most n.
SeqsUpTo(S, n) == UNION {[1..k -> S] : k \in 0..n}

\* vec![0; n]
Zeros(n) == [i \in 1..n |-> 0]

\* Vec::resize(n, 0): truncate, or extend with zeros.
Resize(v, n) == IF n <= Len(v) THEN SubSeq(v, 1, n) ELSE v \o Zeros(n - Len(v))

\* v[from..to] of Rust (0-based, to exclusive), for from <= to <= len.
Slice(v, from, to) == SubSeq(v, from + 1, to)

\* u16::to_le_bytes / u16::from_le_bytes
LE16(n) == <<n % 256, (n \div 256) % 256>>
FromLE16(b) == b[1] + 256 * b[2]

\* A u32 written and read little-endian (binrw, #[brw(little)]).  The numbers of
\* the model stay below 2^31.
LE32(n) == <<n % 256, (n \div 256) % 256, (n \div 65536) % 256, (n \div 16777216) % 256>>
FromLE32(b) == b[1] + 256 * b[2] + 65536 * b[3] + 16777216 * b[4]

----------------------------------------------------------------------------
(* error.rs: the error type and its wire codec.                            *)

ERR_UNKNOWN_HOST == 1
ERR_INVALID_COMMAND == 2
ERR_INVALID_REGISTER == 3
ERR_INVALID_OFFSET == 4
ERR_INVALID_REPLY == 5
ERR_OVERFLOW == 6
ERR_INVALID_VERSION == 7
ERR_IO == 8
ERR_INVALID_DATA == 9
ERR_PACKER == 16
ERR_FAILED == 0

\* The variants without a field, and those carrying a value that is rendered as text.
UnitKinds == {"UnknownHost", "InvalidCommand", "InvalidRegister", "InvalidOffset",
              "InvalidReply", "Overflow", "UnsupportedVersion", "InvalidData"}
TextKinds == {"Io", "Packer", "Failed"}

\* enum Error.  msg is the Display text of the carried value, as bytes.
Error(kind, msg) == [kind |-> kind, msg |-> msg]
UnknownHost == Error("UnknownHost", <<>>)
InvalidCommand == Error("InvalidCommand", <<>>)
InvalidRegister == Error("InvalidRegister", <<>>)
InvalidOffset == Error("InvalidOffset", <<>>)
InvalidReply == Error("InvalidReply", <<>>)
Overflow == Error("Overflow", <<>>)
UnsupportedVersion == Error("UnsupportedVersion", <<>>)
InvalidData == Error("InvalidData", <<>>)

\* Error::code
code(err) ==
    CASE err.kind = "UnknownHost" -> ERR_UNKNOWN_HOST
      [] err.kind = "InvalidCommand" -> ERR_INVALID_COMMAND
      [] err.kind = "InvalidRegister" -> ERR_INVALID_REGISTER
      [] err.kind = "InvalidOffset" -> ERR_INVALID_OFFSET
      [] err.kind = "InvalidReply" -> ERR_INVALID_REPLY
      [] err.kind = "Overflow" -> ERR_OVERFLOW
      [] err.kind = "UnsupportedVersion" -> ERR_INVALID_VERSION
      [] err.kind = "Io" -> ERR_IO
      [] err.kind = "InvalidData" -> ERR_INVALID_DATA
      [] err.kind = "Packer" -> ERR_PACKER
      [] err.kind = "Failed" -> ERR_FAILED

\* impl From<Error> for Vec<u8>: the code, little-endian, then the text of the
\* variants that carry one.
ErrorToBytes(err) ==
    LE16(code(err)) \o (IF err.kind \in TextKinds THEN err.msg ELSE <<>>)

\* std::str::from_utf8(s).unwrap_or_default().  Over the byte values of the model
\* (ASCII and 0xFF) a slice is valid UTF-8 exactly when it holds no byte >= 128.
Utf8OrDefault(s) == IF \A i \in 1..Len(s) : s[i] < 128 THEN s ELSE <<>>

\* The upper-case hexadecimal digit of d in 0..15, as ASCII.
HexDigit(d) == IF d < 10 THEN 48 + d ELSE 55 + d

\* format!("Unknown error code: 0x{:04X}", c), as ASCII bytes.
UnknownCodeMsg(c) ==
    <<85, 110, 107, 110, 111, 119, 110, 32, 101, 114, 114, 111, 114, 32,
      99, 111, 100, 101, 58, 32, 48, 120>>
    \o <<HexDigit((c \div 4096) % 16), HexDigit((c \div 256) % 16),
         HexDigit((c \div 16) % 16), HexDigit(c % 16)>>

\* impl From<&[u8]> for Error
ErrorFromBytes(slice) ==
    IF Len(slice) < 2 THEN Error("Failed", <<>>)
    ELSE LET c == FromLE16(SubSeq(slice, 1, 2))
             msg == Utf8OrDefault(SubSeq(slice, 3, Len(slice)))
         IN CASE c = ERR_UNKNOWN_HOST -> UnknownHost
              [] c = ERR_INVALID_COMMAND -> InvalidCommand
              [] c = ERR_INVALID_REGISTER -> InvalidRegister
              [] c = ERR_INVALID_OFFSET -> InvalidOffset
              [] c = ERR_INVALID_REPLY -> InvalidReply
              [] c = ERR_OVERFLOW -> Overflow
              [] c = ERR_INVALID_VERSION -> UnsupportedVersion
              [] c = ERR_IO -> Error("Io", msg)
              [] c = ERR_INVALID_DATA -> InvalidData
              [] c = ERR_FAILED -> Error("Failed", msg)
              [] OTHER -> Error("Failed", UnknownCodeMsg(c))

\* Every value of the Error type, with texts over MsgBytes.
Errors ==
    {Error(k, <<>>) : k \in UnitKinds}
    \cup {Error(k, m) : k \in TextKinds, m \in SeqsUpTo(MsgBytes, MaxMsg)}

----------------------------------------------------------------------------
(* context.rs: Basic, the register bank.                                   *)

\* Basic::new
BasicNew(register_count, size) == [i \in 1..register_count |-> Zeros(size)]

\* A copy that ignores the offset: reg_data[..data.len()].copy_from_slice(data).
CopyFromSliceAtStart(reg_data, offset, d) ==
    [i \in 1..Len(reg_data) |-> IF i <= Len(d) THEN d[i] ELSE reg_data[i]]

\* reg_data[offset..offset + data.len()].copy_from_slice(data)
CopyFromSlice(reg_data, offset, d) ==
    [i \in 1..Len(reg_data) |->
        IF offset < i /\ i <= offset + Len(d) THEN d[i - offset] ELSE reg_data[i]]

\* set_bytes with the test of register_flexible inverted: a flexible register
\* rejects a write past its end and a fixed one grows.
set_bytes_inverted(bank, flexible, register, offset, d) ==
    IF register >= Len(bank)
    THEN [res |-> Err(InvalidRegister), data |-> bank]
    ELSE LET reg_data == bank[register + 1]
             grown == IF Len(reg_data) < offset + Len(d)
                      THEN Resize(reg_data, offset + Len(d))
                      ELSE reg_data
         IN IF Len(reg_data) < offset + Len(d) /\ flexible
            THEN [res |-> Err(InvalidOffset), data |-> bank]
            ELSE [res |-> Ok(<<>>),
                  data |-> [bank EXCEPT ![register + 1] = CopyFromSlice(grown, offset, d)]]

\* set_bytes with the resize applied whatever the length: a register longer than
\* offset + data.len() is cut to that length.
set_bytes_resizing(bank, flexible, register, offset, d) ==
    IF register >= Len(bank)
    THEN [res |-> Err(InvalidRegister), data |-> bank]
    ELSE LET reg_data == bank[register + 1]
             grown == Resize(reg_data, offset + Len(d))
         IN IF Len(reg_data) < offset + Len(d) /\ ~flexible
            THEN [res |-> Err(InvalidOffset), data |-> bank]
            ELSE [res |-> Ok(<<>>),
                  data |-> [bank EXCEPT ![register + 1] = CopyFromSlice(grown, offset, d)]]

\* Basic::set_bytes on the bank `bank`: the result and the bank afterwards.
set_bytes(bank, flexible, register, offset, d) ==
    IF register >= Len(bank)
    THEN [res |-> Err(InvalidRegister), data |-> bank]
    ELSE LET reg_data == bank[register + 1]
             grown == IF Len(reg_data) < offset + Len(d)
                      THEN Resize(reg_data, offset + Len(d))
                      ELSE reg_data
         IN IF Len(reg_data) < offset + Len(d) /\ ~flexible
            THEN [res |-> Err(InvalidOffset), data |-> bank]
            ELSE [res |-> Ok(<<>>),
                  data |-> [bank EXCEPT ![register + 1] = CopyFromSlice(grown, offset, d)]]

\* reg_data.len() - offset in usize.  With overflow checks a negative difference
\* panics; without them it wraps to 2^64 + (len - offset), which the model keeps
\* as the negative number len - offset (see IsWrapped).
ImpliedSize(len, offset, checks) ==
    IF offset > len /\ checks THEN Panic ELSE Ok(len - offset)

\* A usize that wrapped below zero: it exceeds isize::MAX, so no Vec of that
\* length can be allocated.
IsWrapped(n) == n < 0

\* get_bytes without result.resize(data_size, 0): a flexible read that runs past
\* the end returns the stored bytes only.
get_bytes_unpadded(bank, flexible, checks, register, offset, size) ==
    IF register >= Len(bank) THEN Err(InvalidRegister)
    ELSE LET reg_data == bank[register + 1]
             implied == IF size = 0 THEN ImpliedSize(Len(reg_data), offset, checks)
                        ELSE Ok(size)
         IN IF implied.tag = "Panic" THEN Panic
            ELSE LET data_size == implied.val
                 IN IF offset > Len(reg_data)
                    THEN IF ~flexible THEN Err(InvalidOffset)
                         ELSE IF IsWrapped(data_size) THEN Panic
                         ELSE Ok(Zeros(data_size))
                    ELSE LET result == Slice(reg_data, offset,
                                             Min(Len(reg_data), offset + data_size))
                         IN IF Len(result) < data_size /\ ~flexible
                            THEN Err(InvalidOffset)
                            ELSE Ok(result)

\* Basic::get_bytes on the bank `bank`.
get_bytes(bank, flexible, checks, register, offset, size) ==
    IF register >= Len(bank) THEN Err(InvalidRegister)
    ELSE LET reg_data == bank[register + 1]
             implied == IF size = 0 THEN ImpliedSize(Len(reg_data), offset, checks)
                        ELSE Ok(size)
         IN IF implied.tag = "Panic" THEN Panic
            ELSE LET data_size == implied.val
                 IN IF offset > Len(reg_data)
                    THEN IF ~flexible THEN Err(InvalidOffset)
                         ELSE IF IsWrapped(data_size) THEN Panic
                         ELSE Ok(Zeros(data_size))
                    ELSE LET result == Slice(reg_data, offset,
                                             Min(Len(reg_data), offset + data_size))
                         IN IF Len(result) < data_size
                            THEN IF ~flexible THEN Err(InvalidOffset)
                                 ELSE Ok(Resize(result, data_size))
                            ELSE Ok(result)

----------------------------------------------------------------------------
(* comm.rs: commands, frames and the raw data header.                      *)

COMMAND_REPLY == 0
COMMAND_ERROR == 1
COMMAND_PING == 2
COMMAND_READ_SHARED_CONTEXT == 256
COMMAND_WRITE_SHARED_CONTEXT == 257
COMMAND_WRITE_SHARED_CONTEXT_UNCONFIRMED == 258

\* enum Command: a standard command, or Other(value).
Reply == [tag |-> "Reply"]
ErrorCmd == [tag |-> "Error"]
Ping == [tag |-> "Ping"]
ReadSharedContext == [tag |-> "ReadSharedContext"]
WriteSharedContext == [tag |-> "WriteSharedContext"]
WriteSharedContextUnconfirmed == [tag |-> "WriteSharedContextUnconfirmed"]
Other(value) == [tag |-> "Other", value |-> value]

\* struct Frame
Frame(source, target, id, in_reply_to, command) ==
    [source |-> source, target |-> target, id |-> id, in_reply_to |-> in_reply_to,
     command |-> command]

\* RawDataHeader::SIZE
RAW_DATA_HEADER_SIZE == 12

\* RawDataHeader written little-endian: register, offset, size.
RawDataHeaderBytes(register, offset, size) == LE32(register) \o LE32(offset) \o LE32(size)

\* The Display text of the binrw error for a read past the end of the input.
\* Its wording plays no part in the code; the model takes the ASCII bytes "EOF".
EofText == <<69, 79, 70>>

\* RawDataHeader::read(&mut Cursor::new(data))?: binrw fails when fewer than 12
\* bytes are left, and `?` turns its error into Error::Packer.
RawDataHeaderRead(payload) ==
    IF Len(payload) < RAW_DATA_HEADER_SIZE THEN Err(Error("Packer", EofText))
    ELSE Ok([register |-> FromLE32(SubSeq(payload, 1, 4)),
             offset |-> FromLE32(SubSeq(payload, 5, 8)),
             size |-> FromLE32(SubSeq(payload, 9, 12))])

\* VERSION, PacketHeader::SIZE and Frame::SIZE
VERSION == 0
PACKET_HEADER_SIZE == 7
FRAME_SIZE == 19

\* Command::code
CommandCode(command) ==
    CASE command.tag = "Reply" -> COMMAND_REPLY
      [] command.tag = "Ping" -> COMMAND_PING
      [] command.tag = "Error" -> COMMAND_ERROR
      [] command.tag = "ReadSharedContext" -> COMMAND_READ_SHARED_CONTEXT
      [] command.tag = "WriteSharedContext" -> COMMAND_WRITE_SHARED_CONTEXT
      [] command.tag = "WriteSharedContextUnconfirmed" ->
            COMMAND_WRITE_SHARED_CONTEXT_UNCONFIRMED
      [] command.tag = "Other" -> command.value

\* impl From<u16> for Command
CommandFrom(value) ==
    CASE value = COMMAND_REPLY -> Reply
      [] value = COMMAND_PING -> Ping
      [] value = COMMAND_ERROR -> ErrorCmd
      [] value = COMMAND_READ_SHARED_CONTEXT -> ReadSharedContext
      [] value = COMMAND_WRITE_SHARED_CONTEXT -> WriteSharedContext
      [] value = COMMAND_WRITE_SHARED_CONTEXT_UNCONFIRMED -> WriteSharedContextUnconfirmed
      [] OTHER -> Other(value)

\* PacketHeader written by binrw: the magic b"RD", version, size little-endian.
PacketHeaderBytes(version, size) == <<82, 68, version>> \o LE32(size)

\* Frame written with id and in_reply_to in each other's place.
FrameBytesIdsExchanged(frame) ==
    LE32(frame.source) \o LE32(frame.target) \o LE32(frame.in_reply_to)
    \o LE32(frame.id) \o LE16(CommandCode(frame.command))

\* Frame written by binrw: four u32 and the command's code, 18 bytes.
FrameBytes(frame) ==
    LE32(frame.source) \o LE32(frame.target) \o LE32(frame.id)
    \o LE32(frame.in_reply_to) \o LE16(CommandCode(frame.command))

\* Frame::read from the start of a buffer.
FrameRead(b) ==
    Frame(FromLE32(SubSeq(b, 1, 4)), FromLE32(SubSeq(b, 5, 8)), FromLE32(SubSeq(b, 9, 12)),
          FromLE32(SubSeq(b, 13, 16)), CommandFrom(FromLE16(SubSeq(b, 17, 18))))

\* Packet::write_to: the bytes handed to the writer, a zeroed buffer of
\* PacketHeader::SIZE + Frame::SIZE bytes with the header and the frame written
\* at its start.  (data_len + 19 fits a u32 in the model.)
PacketWriteTo(frame, data_len) ==
    LET written == PacketHeaderBytes(VERSION, data_len + FRAME_SIZE) \o FrameBytes(frame)
    IN written \o Zeros(PACKET_HEADER_SIZE + FRAME_SIZE - Len(written))

\* The Display texts of an I/O error for a stream that ended and of binrw's
\* error for a wrong magic; their wording plays no part in the code.
BadMagicText == <<98, 97, 100, 32, 109, 97, 103, 105, 99>>

\* Read::read_exact(n) on the bytes `stream`: the bytes read and the rest, or an
\* I/O error when the stream ends before n bytes.
ReadExact(stream, n) ==
    IF Len(stream) < n THEN [res |-> Err(Error("Io", EofText)), rest |-> <<>>]
    ELSE [res |-> Ok(SubSeq(stream, 1, n)), rest |-> SubSeq(stream, n + 1, Len(stream))]

\* Packet::read_from on the bytes `stream`: the packet (frame, data_len) or the
\* error, and the bytes left unread.
PacketReadFrom(stream) ==
    LET head == ReadExact(stream, PACKET_HEADER_SIZE)
    IN IF IsErr(head.res) THEN head
       ELSE LET version == head.res.val[3]
                size == FromLE32(SubSeq(head.res.val, 4, 7))
                body == ReadExact(head.rest, FRAME_SIZE)
            IN IF SubSeq(head.res.val, 1, 2) # <<82, 68>>
               THEN [res |-> Err(Error("Packer", BadMagicText)), rest |-> head.rest]
               ELSE IF version # VERSION
               THEN [res |-> Err(UnsupportedVersion), rest |-> head.rest]
               ELSE IF size < FRAME_SIZE
               THEN [res |-> Err(InvalidData), rest |-> head.rest]
               ELSE IF IsErr(body.res) THEN body
               ELSE [res |-> Ok([frame |-> FrameRead(body.res.val),
                                 data_len |-> size - FRAME_SIZE]),
                     rest |-> body.rest]

----------------------------------------------------------------------------
(* host.rs: the host dispatcher.                                           *)

\* create_frame with source and target exchanged.
create_frame_swapped(id, frame_id, target, in_reply_to, command) ==
    Frame(target, id, frame_id, in_reply_to, command)

\* Host::create_frame, given the value fetch_add returned.  (The counter wraps at
\* 2^32; the model's runs stay far below.)
create_frame(id, frame_id, target, in_reply_to, command) ==
    Frame(id, target, frame_id, in_reply_to, command)

\* host_id_matches with the test for the unspecified target 0 inverted.
host_id_matches_nonzero(id, frame) == frame.target = id \/ frame.target # 0

\* Host::host_id_matches
host_id_matches(id, frame) == frame.target = id \/ frame.target = 0

\* What process_frame returns together with the state it leaves: the result, the
\* register bank, the frame counter, and whether the custom handler was invoked.
Outcome(res, bank, frame_id, handled) ==
    [res |-> res, data |-> bank, next_frame_id |-> frame_id, handled |-> handled]

\* Ok(Some((self.create_frame(frame.source, frame.id, command), payload)))
ReplyWith(id, bank, frame_id, frame, command, payload, handled) ==
    Outcome(Ok(Some([frame |-> create_frame(id, frame_id, frame.source, frame.id, command),
                     data |-> payload])),
            bank, frame_id + 1, handled)

\* The write arm with a failed unconfirmed write left unanswered.
write_result_silent(id, frame_id, frame, set) ==
    IF frame.command = WriteSharedContext
    THEN IF IsOk(set.res)
         THEN ReplyWith(id, set.data, frame_id, frame, Reply, <<>>, FALSE)
         ELSE ReplyWith(id, set.data, frame_id, frame, ErrorCmd,
                        ErrorToBytes(set.res.err), FALSE)
    ELSE Outcome(Ok(None), set.data, frame_id, FALSE)

\* process_frame, the match on the result `set` of set_bytes in the write arm.
write_result(id, frame_id, frame, set) ==
    IF IsOk(set.res)
    THEN IF frame.command = WriteSharedContext
         THEN ReplyWith(id, set.data, frame_id, frame, Reply, <<>>, FALSE)
         ELSE Outcome(Ok(None), set.data, frame_id, FALSE)
    ELSE ReplyWith(id, set.data, frame_id, frame, ErrorCmd, ErrorToBytes(set.res.err), FALSE)

\* The first match with a stray Error left to the arms below.
is_stray_reply_only(frame) == frame.command = Reply

\* process_frame, its first match: a Reply or an Error frame is dropped.
is_stray(frame) == frame.command \in {Reply, ErrorCmd}

\* The handler arm with the handler's error returned to the caller.
handler_outcome_propagated(id, bank, frame_id, frame, handler_result) ==
    CASE handler_result.tag = "Err" -> Outcome(handler_result, bank, frame_id, TRUE)
      [] handler_result.tag = "Ok" /\ handler_result.val.some ->
            ReplyWith(id, bank, frame_id, frame, Reply, handler_result.val.val, TRUE)
      [] OTHER -> Outcome(Ok(None), bank, frame_id, TRUE)

\* process_frame, the match on what custom_command_handler.handle returned.
handler_outcome(id, bank, frame_id, frame, handler_result) ==
    CASE handler_result.tag = "Err" ->
            ReplyWith(id, bank, frame_id, frame, ErrorCmd,
                      ErrorToBytes(handler_result.err), TRUE)
      [] handler_result.tag = "Ok" /\ handler_result.val.some ->
            ReplyWith(id, bank, frame_id, frame, Reply, handler_result.val.val, TRUE)
      [] OTHER -> Outcome(Ok(None), bank, frame_id, TRUE)

\* Host::process_frame of the host (id, handler) on the bank `bank` with frame
\* counter frame_id.  handler_result is what the custom handler returns if it is
\* invoked.
process_frame(id, handler, bank, flexible, checks, frame_id, frame, payload, handler_result) ==
    IF is_stray(frame)
    THEN Outcome(Ok(None), bank, frame_id, FALSE)
    ELSE IF ~host_id_matches(id, frame)
    THEN ReplyWith(id, bank, frame_id, frame, ErrorCmd, ErrorToBytes(UnknownHost), FALSE)
    ELSE IF frame.command = Ping
    THEN ReplyWith(id, bank, frame_id, frame, Reply, <<>>, FALSE)
    ELSE IF frame.command = ReadSharedContext
    THEN LET hdr == RawDataHeaderRead(payload)
         IN IF IsErr(hdr) THEN Outcome(hdr, bank, frame_id, FALSE)
            ELSE LET got == get_bytes(bank, flexible, checks, hdr.val.register,
                                      hdr.val.offset, hdr.val.size)
                 IN CASE got.tag = "Panic" -> Outcome(Panic, bank, frame_id, FALSE)
                      [] got.tag = "Ok" ->
                            ReplyWith(id, bank, frame_id, frame, Reply, got.val, FALSE)
                      [] got.tag = "Err" ->
                            ReplyWith(id, bank, frame_id, frame, ErrorCmd,
                                      ErrorToBytes(got.err), FALSE)
    ELSE IF frame.command \in {WriteSharedContext, WriteSharedContextUnconfirmed}
    THEN LET hdr == RawDataHeaderRead(payload)
         IN IF IsErr(hdr) THEN Outcome(hdr, bank, frame_id, FALSE)
            ELSE LET raw_data == SubSeq(payload, RAW_DATA_HEADER_SIZE + 1, Len(payload))
                 IN IF hdr.val.size # Len(raw_data)
                    THEN Outcome(Err(InvalidData), bank, frame_id, FALSE)
                    ELSE write_result(id, frame_id, frame,
                                      set_bytes(bank, flexible, hdr.val.register,
                                                hdr.val.offset, raw_data))
    ELSE IF handler
    THEN handler_outcome(id, bank, frame_id, frame, handler_result)
    ELSE ReplyWith(id, bank, frame_id, frame, ErrorCmd, ErrorToBytes(InvalidCommand), FALSE)

----------------------------------------------------------------------------
(* io.rs: SimpleClient and SimpleServerProcessor.                          *)

\* The bytes a client or a server processor writes for (frame, data): the packet
\* buffer, then the data.  The zero-copy path and the buffered path write the
\* same bytes, in two writes or in one.
WritePacket(frame, payload) == PacketWriteTo(frame, Len(payload)) \o payload

\* The frame SimpleClient::communicate builds for its request.
RequestFrame(target, id, command) == Frame(0, target, id, 0, command)

\* The reply check without the comparison of in_reply_to.
communicate_reply_any_id(stream, id) ==
    LET pk == PacketReadFrom(stream)
    IN IF IsErr(pk.res) THEN [res |-> pk.res, reply |-> None, rest |-> pk.rest]
       ELSE LET body == ReadExact(pk.rest, pk.res.val.data_len)
                frame == pk.res.val.frame
            IN IF IsErr(body.res) THEN [res |-> body.res, reply |-> None, rest |-> body.rest]
               ELSE [res |-> IF frame.target # 0
                             THEN Err(InvalidReply)
                             ELSE Ok(Some(body.res.val)),
                     reply |-> Some([frame |-> frame, data |-> body.res.val]),
                     rest |-> body.rest]

\* SimpleClient::communicate after the request is written, with wait_reply: read
\* one packet and its data from `stream`, check the frame against the request's
\* id.  The result, the frame and data read (if any), and the bytes left.
communicate_reply(stream, id) ==
    LET pk == PacketReadFrom(stream)
    IN IF IsErr(pk.res) THEN [res |-> pk.res, reply |-> None, rest |-> pk.rest]
       ELSE LET body == ReadExact(pk.rest, pk.res.val.data_len)
                frame == pk.res.val.frame
            IN IF IsErr(body.res) THEN [res |-> body.res, reply |-> None, rest |-> body.rest]
               ELSE [res |-> IF frame.target # 0 \/ frame.in_reply_to # id
                             THEN Err(InvalidReply)
                             ELSE Ok(Some(body.res.val)),
                     reply |-> Some([frame |-> frame, data |-> body.res.val]),
                     rest |-> body.rest]

\* What ping, read_register and write_register make of communicate's result.
op_result(op, comm) ==
    CASE op = "communicate" -> comm
      [] op = "read_register" ->
            IF IsErr(comm) THEN comm
            ELSE IF comm.val.some THEN Ok(comm.val.val) ELSE Err(InvalidReply)
      [] OTHER -> IF IsErr(comm) THEN comm ELSE Ok(Unit)

\* process_next without self.stream.read_exact(&mut self.data_buf): the data of
\* the packet stays on the stream and the host gets no data.
process_next_data_unread(stream, id, handler, bank, flexible, checks, frame_id, handler_result) ==
    LET pk == PacketReadFrom(stream)
        stopped(res, rest) ==
            [res |-> res, rest |-> rest, out |-> <<>>, data |-> bank,
             next_frame_id |-> frame_id, call |-> NoCall]
    IN IF IsErr(pk.res) THEN stopped(pk.res, pk.rest)
       ELSE LET frame == pk.res.val.frame
                pf == process_frame(id, handler, bank, flexible, checks, frame_id,
                                    frame, <<>>, handler_result)
            IN [res |-> IF pf.res.tag = "Ok" THEN Ok(Unit) ELSE pf.res,
                rest |-> pk.rest,
                out |-> IF pf.res.tag = "Ok" /\ pf.res.val.some
                        THEN WritePacket(pf.res.val.val.frame, pf.res.val.val.data)
                        ELSE <<>>,
                data |-> pf.data,
                next_frame_id |-> pf.next_frame_id,
                call |-> [op |-> "process_frame", frame |-> frame,
                          payload |-> <<>>, pre |-> bank,
                          pre_frame_id |-> frame_id, res |-> pf.res,
                          handled |-> pf.handled,
                          handler_result |-> handler_result]]

\* process_next with the reply left in a buffer that is never flushed: nothing
\* reaches the stream.
process_next_unflushed(stream, id, handler, bank, flexible, checks, frame_id, handler_result) ==
    LET pk == PacketReadFrom(stream)
        stopped(res, rest) ==
            [res |-> res, rest |-> rest, out |-> <<>>, data |-> bank,
             next_frame_id |-> frame_id, call |-> NoCall]
    IN IF IsErr(pk.res) THEN stopped(pk.res, pk.rest)
       ELSE LET body == ReadExact(pk.rest, pk.res.val.data_len)
            IN IF IsErr(body.res) THEN stopped(body.res, body.rest)
               ELSE LET frame == pk.res.val.frame
                        pf == process_frame(id, handler, bank, flexible, checks, frame_id,
                                            frame, body.res.val, handler_result)
                    IN [res |-> IF pf.res.tag = "Ok" THEN Ok(Unit) ELSE pf.res,
                        rest |-> body.rest,
                        out |-> <<>>,
                        data |-> pf.data,
                        next_frame_id |-> pf.next_frame_id,
                        call |-> [op |-> "process_frame", frame |-> frame,
                                  payload |-> body.res.val, pre |-> bank,
                                  pre_frame_id |-> frame_id, res |-> pf.res,
                                  handled |-> pf.handled,
                                  handler_result |-> handler_result]]

\* SimpleServerProcessor::process_next on the unread bytes `stream`: its result,
\* the bytes left unread, the bytes written, the host's state afterwards and the
\* process_frame call it made (if it got that far).
process_next(stream, id, handler, bank, flexible, checks, frame_id, handler_result) ==
    LET pk == PacketReadFrom(stream)
        stopped(res, rest) ==
            [res |-> res, rest |-> rest, out |-> <<>>, data |-> bank,
             next_frame_id |-> frame_id, call |-> NoCall]
    IN IF IsErr(pk.res) THEN stopped(pk.res, pk.rest)
       ELSE LET body == ReadExact(pk.rest, pk.res.val.data_len)
            IN IF IsErr(body.res) THEN stopped(body.res, body.rest)
               ELSE LET frame == pk.res.val.frame
                        pf == process_frame(id, handler, bank, flexible, checks, frame_id,
                                            frame, body.res.val, handler_result)
                    IN [res |-> IF pf.res.tag = "Ok" THEN Ok(Unit) ELSE pf.res,
                        rest |-> body.rest,
                        out |-> IF pf.res.tag = "Ok" /\ pf.res.val.some
                                THEN WritePacket(pf.res.val.val.frame, pf.res.val.val.data)
                                ELSE <<>>,
                        data |-> pf.data,
                        next_frame_id |-> pf.next_frame_id,
                        call |-> [op |-> "process_frame", frame |-> frame,
                                  payload |-> body.res.val, pre |-> bank,
                                  pre_frame_id |-> frame_id, res |-> pf.res,
                                  handled |-> pf.handled,
                                  handler_result |-> handler_result]]

----------------------------------------------------------------------------
(* Direct calls on a context handle: SpecCtx.                              *)


ErrIdle == err_in = UnknownHost /\ err_wire = None /\ err_out = None

PktIdle ==
    /\ pkt_frame = Frame(0, 0, 0, 0, Reply)
    /\ pkt_payload = <<>>
    /\ pkt_wire = [bytes |-> <<>>, written |-> FALSE]
    /\ pkt_read = None

Free == "free"

ThrIdle ==
    /\ thr_pc = <<>>
    /\ thr_local = <<>>
    /\ reg_lock = <<>>
    /\ created = <<>>

UdpIdle ==
    /\ peer = None
    /\ mtu = 0
    /\ read_buffer = <<>>
    /\ write_buffer = <<>>
    /\ unflushed = <<>>
    /\ socket_sent = <<>>
    /\ udp_call = NoCall
    /\ socket_queue = <<>>
    /\ peer_request_id = <<>>

AuxIdle == PktIdle /\ ThrIdle /\ UdpIdle

IoIdle ==
    /\ request_id = 0
    /\ target_id = 0
    /\ client = NoCall
    /\ prev_write = None
    /\ c2s = <<>>
    /\ s2c = <<>>
    /\ server = "running"
    /\ srv_call = NoCall

HostIdle ==
    /\ host_id = 0
    /\ next_frame_id = 0
    /\ custom_command_handler = FALSE
    /\ host_call = NoCall

CtxIdle ==
    /\ data = BasicNew(1, 0)
    /\ register_size = 0
    /\ register_flexible = FALSE
    /\ overflow_checks = FALSE
    /\ ctx_call = NoCall
    /\ last_set = None

InitCtx ==
    /\ \E n \in 1..MaxRegs, size \in 0..MaxRegSize :
          /\ data = BasicNew(n, size)
          /\ register_size = size
    /\ register_flexible \in BOOLEAN
    /\ overflow_checks \in BOOLEAN
    /\ ctx_call = NoCall
    /\ last_set = None
    /\ ErrIdle
    /\ AuxIdle
    /\ HostIdle
    /\ IoIdle

\* A thread calls set_bytes(register, offset, d) on its handle.
CtxSetBytes ==
    /\ ctx_call.n < MaxCalls
    /\ \E register \in RegisterIds, offset \in Offsets, len \in 0..MaxData :
          LET d == DataOf(ctx_call.n + 1, len)
              r == set_bytes(data, register_flexible, register, offset, d)
              call == [op |-> "set_bytes", n |-> ctx_call.n + 1, register |-> register,
                       offset |-> offset, d |-> d, res |-> r.res]
          IN /\ data' = r.data
             /\ ctx_call' = call
             /\ last_set' = IF IsOk(r.res) THEN Some(call) ELSE last_set
    /\ UNCHANGED <<auxVars, register_flexible, register_size, overflow_checks, errVars, hostVars, ioVars>>

\* The sizes asked of get_bytes directly: up to one byte more than the longest
\* write, so that a read can hold written bytes and run past them.
ReadSizes == 0..(MaxData + 1)

\* A thread calls get_bytes(register, offset, size) on its handle.
CtxGetBytes ==
    /\ ctx_call.n < MaxCalls
    /\ \E register \in RegisterIds, offset \in Offsets, size \in ReadSizes :
          ctx_call' = [op |-> "get_bytes", n |-> ctx_call.n + 1, register |-> register,
                       offset |-> offset, size |-> size,
                       res |-> get_bytes(data, register_flexible, overflow_checks,
                                         register, offset, size)]
    /\ UNCHANGED <<auxVars, ctxVars, last_set, errVars, hostVars, ioVars>>

NextCtx == CtxSetBytes \/ CtxGetBytes

SpecCtx == InitCtx /\ [][NextCtx]_vars

----------------------------------------------------------------------------
(* Claims about the context.                                               *)

\* The last call is a get_bytes that reads back the range of the last successful
\* set_bytes: same register, same offset, size = len(data).
ReadsBackLastSet ==
    /\ ctx_call.op = "get_bytes"
    /\ last_set.some
    /\ ctx_call.register = last_set.val.register
    /\ ctx_call.offset = last_set.val.offset
    /\ ctx_call.size = Len(last_set.val.d)

\* C7, as claimed: after a successful set_bytes(register, offset, data), data of
\* any length (zero included), a get_bytes(register, offset, len(data)) with no
\* write in between returns exactly data.
C7_ReadBackAnyLength ==
    ReadsBackLastSet => ctx_call.res = Ok(last_set.val.d)

\* C7, amended: the read returns exactly data when data is not empty; for empty
\* data the read has size 0 and returns the register from offset to its end.
C7_ReadBackNonEmpty ==
    ReadsBackLastSet =>
        IF Len(last_set.val.d) > 0
        THEN ctx_call.res = Ok(last_set.val.d)
        ELSE LET reg_data == data[ctx_call.register + 1]
             IN ctx_call.res = Ok(Slice(reg_data, ctx_call.offset, Len(reg_data)))

\* C7 witness: a non-empty write past the end of a flexible register, read back.
C7_Witness ==
    /\ ReadsBackLastSet
    /\ Len(last_set.val.d) > 0
    /\ last_set.val.offset > register_size
    /\ ctx_call.res = Ok(last_set.val.d)

\* C8: with flexible = TRUE a set_bytes on a register < N succeeds for every
\* offset and data and leaves the register max(old length, offset + len(data))
\* bytes long, which is at least offset + len(data); a register index >= N
\* fails with InvalidRegister.
C8_FlexibleSetGrows ==
    [][(register_flexible /\ ctx_call'.op = "set_bytes") =>
          LET c == ctx_call'
          IN IF c.register < Len(data)
             THEN /\ c.res = Ok(<<>>)
                  /\ Len(data'[c.register + 1])
                        = Max(Len(data[c.register + 1]), c.offset + Len(c.d))
                  /\ Len(data'[c.register + 1]) >= c.offset + Len(c.d)
             ELSE c.res = Err(InvalidRegister) /\ data' = data]_vars

\* C8 witness: a flexible register has grown beyond its initial size by a write.
C8_Witness ==
    /\ register_flexible
    /\ ctx_call.op = "set_bytes"
    /\ ctx_call.res = Ok(<<>>)
    /\ ctx_call.offset + Len(ctx_call.d) > register_size
    /\ Len(data[ctx_call.register + 1]) = ctx_call.offset + Len(ctx_call.d)

\* C22, as claimed: get_bytes(register, offset, 0) on a register < N is defined
\* for every offset.  For offset <= len it returns the bytes register[offset..len]
\* (none when offset = len), flexible or not; for offset > len it returns
\* InvalidOffset when flexible = FALSE and no bytes when flexible = TRUE.  The
\* call never aborts.
C22_SizeZeroDefined ==
    (/\ ctx_call.op = "get_bytes"
     /\ ctx_call.register < Len(data)
     /\ ctx_call.size = 0)
    => LET reg_data == data[ctx_call.register + 1]
       IN IF ctx_call.offset <= Len(reg_data)
          THEN ctx_call.res = Ok(Slice(reg_data, ctx_call.offset, Len(reg_data)))
          ELSE IF ~register_flexible
          THEN ctx_call.res = Err(InvalidOffset)
          ELSE ctx_call.res = Ok(<<>>)

\* The bytes a flexible read of `size` bytes at `offset` is to return: the stored
\* bytes of the range, zeros past the end of the register.
StoredThenZeros(reg_data, offset, size) ==
    [i \in 1..size |-> IF offset + i <= Len(reg_data) THEN reg_data[offset + i] ELSE 0]

\* C23: with flexible = TRUE, register < N and size > 0, get_bytes(register,
\* offset, size) succeeds and returns exactly size bytes, the stored bytes
\* register[offset..min(len, offset + size)) followed by zeros (all zeros when
\* offset >= len), and leaves every register's contents and length unchanged.
C23_FlexibleReadPads ==
    [][(/\ register_flexible
        /\ ctx_call'.op = "get_bytes"
        /\ ctx_call'.register < Len(data)
        /\ ctx_call'.size > 0)
       => /\ ctx_call'.res = Ok(StoredThenZeros(data[ctx_call'.register + 1],
                                                 ctx_call'.offset, ctx_call'.size))
          /\ Len(ctx_call'.res.val) = ctx_call'.size
          /\ data' = data]_vars

\* C23 witness: a flexible read has returned a written byte followed by a zero
\* from past the end of the register.
C23_Witness ==
    /\ register_flexible
    /\ ctx_call.op = "get_bytes"
    /\ ctx_call.size = 2
    /\ ctx_call.register < Len(data)
    /\ ctx_call.offset + 1 = Len(data[ctx_call.register + 1])
    /\ IsOk(ctx_call.res)
    /\ ctx_call.res.val[1] # 0
    /\ ctx_call.res.val[2] = 0

\* What a successful set_bytes(register, offset, d) is to leave in a register
\* that held reg_data: d at offset, the other old bytes kept, zeros in any gap
\* between the old end and offset.
Written(reg_data, offset, d) ==
    [i \in 1..Max(Len(reg_data), offset + Len(d)) |->
        IF offset < i /\ i <= offset + Len(d) THEN d[i - offset]
        ELSE IF i <= Len(reg_data) THEN reg_data[i]
        ELSE 0]

\* C29: a set_bytes that fails leaves every register's contents and length
\* unchanged; one that succeeds changes only bytes [offset, offset + len(data))
\* of the addressed register, keeps its other bytes below the old length, fills
\* a gap between the old length and offset with zeros and leaves every other
\* register unchanged.  With flexible = FALSE every register is register_size
\* bytes long in every reachable state.
C29_SetBytesFrame ==
    /\ [](~register_flexible => \A i \in 1..Len(data) : Len(data[i]) = register_size)
    /\ [][ctx_call'.op = "set_bytes" =>
            LET c == ctx_call'
            IN IF IsErr(c.res)
               THEN data' = data
               ELSE /\ c.register < Len(data)
                    /\ Len(data') = Len(data)
                    /\ \A i \in 1..Len(data) :
                          data'[i] = IF i = c.register + 1
                                     THEN Written(data[i], c.offset, c.d)
                                     ELSE data[i]]_vars

\* C29 witness: a write past the end of a register that already held a written
\* byte has kept that byte, filled the gap with a zero and stored its own byte.
C29_Witness ==
    /\ ctx_call.op = "set_bytes"
    /\ ctx_call.res = Ok(<<>>)
    /\ ctx_call.n = 2
    /\ ctx_call.offset = 2
    /\ Len(ctx_call.d) = 1
    /\ LET reg_data == data[ctx_call.register + 1]
       IN /\ Len(reg_data) = 3
          /\ reg_data[1] # 0
          /\ reg_data[2] = 0
          /\ reg_data[3] = ctx_call.d[1]

\* C9, as claimed: with flexible = FALSE and register < N, every set_bytes with
\* offset + len(data) > register_size and every get_bytes with
\* offset + size > register_size (size = 0 included) returns InvalidOffset.
C9_FixedBeyondSizeIsInvalidOffset ==
    (/\ ~register_flexible
     /\ ctx_call.op \in {"set_bytes", "get_bytes"}
     /\ ctx_call.register < Len(data)
     /\ ctx_call.offset + (IF ctx_call.op = "set_bytes" THEN Len(ctx_call.d)
                           ELSE ctx_call.size) > register_size)
    => ctx_call.res = Err(InvalidOffset)

----------------------------------------------------------------------------
(* Direct calls of Host::process_frame: SpecHost.                          *)

\* Host::new(1, context), as in the examples.
HOST_ID == 1

HostIds == 0..MaxHostId

\* The (id, in_reply_to) pairs of the frames handed to the host.
FrameIdPairs == {<<3, 0>>, <<4, 9>>}

\* Codes of custom commands: one below and one in the conventional range from 0x8000.
CustomCodes == {3, 32768}

Commands ==
    {Reply, ErrorCmd, Ping, ReadSharedContext, WriteSharedContext,
     WriteSharedContextUnconfirmed} \cup {Other(v) : v \in CustomCodes}

\* Payloads of a read: a RawDataHeader.
ReadRequests ==
    {RawDataHeaderBytes(r, o, sz) : r \in RegisterIds, o \in Offsets, sz \in Sizes}

\* Payloads of a write: a RawDataHeader whose size is the length of the data after it.
WriteRequests(n) ==
    {RawDataHeaderBytes(r, o, len) \o DataOf(n, len) :
        r \in RegisterIds, o \in Offsets, len \in 0..MaxData}

\* Payloads that are no register request: empty, a truncated header, and headers
\* followed by more or fewer bytes than their size field says.
OddPayloads ==
    {<<>>,
     SubSeq(RawDataHeaderBytes(0, 0, 1), 1, RAW_DATA_HEADER_SIZE - 1),
     RawDataHeaderBytes(0, 0, 0) \o <<1>>,
     RawDataHeaderBytes(0, 0, 2) \o <<1>>}

\* The payloads the model sends with a command.
Payloads(command, n) ==
    CASE command = ReadSharedContext -> ReadRequests \cup OddPayloads
      [] command \in {WriteSharedContext, WriteSharedContextUnconfirmed} ->
            WriteRequests(n) \cup OddPayloads
      [] command = ErrorCmd -> {<<>>, <<1>>, ErrorToBytes(InvalidOffset)}
      [] OTHER -> {<<>>, DataOf(n, MaxData)}

Reverse(s) == [i \in 1..Len(s) |-> s[Len(s) + 1 - i]]

\* What a custom handler may return for a payload: the handler is the user's code,
\* so the model takes each of these.
HandlerResults(payload) ==
    {Ok(None), Ok(Some(Reverse(payload))), Err(InvalidCommand), Err(Error("Failed", <<65>>))}

\* The handler results that matter for a frame: one when the handler is not reached.
HandlerResultsFor(handler, command, payload) ==
    IF handler /\ command.tag = "Other" THEN HandlerResults(payload) ELSE {Ok(None)}

InitHost ==
    /\ \E n \in 1..MaxRegs, size \in 0..MaxRegSize, prefill \in BOOLEAN :
          /\ register_size = size
          /\ register_flexible \in BOOLEAN
          \* the bank as created, or after a direct write of one byte to register 0
          /\ data = IF prefill
                    THEN set_bytes(BasicNew(n, size), register_flexible, 0, 0, <<7>>).data
                    ELSE BasicNew(n, size)
    /\ overflow_checks \in BOOLEAN
    /\ ctx_call = NoCall
    /\ last_set = None
    /\ ErrIdle
    /\ AuxIdle
    /\ host_id = HOST_ID
    /\ next_frame_id \in 0..MaxFrames
    /\ custom_command_handler \in BOOLEAN
    /\ host_call = NoCall
    /\ IoIdle

\* One call host.process_frame(&frame, &payload).
HostProcessFrame ==
    /\ host_call = NoCall
    /\ \E source \in HostIds, target \in HostIds, ids \in FrameIdPairs, command \in Commands :
          \E payload \in Payloads(command, 1) :
             \E handler_result \in HandlerResultsFor(custom_command_handler, command, payload) :
                LET frame == Frame(source, target, ids[1], ids[2], command)
                    out == process_frame(host_id, custom_command_handler, data,
                                         register_flexible, overflow_checks,
                                         next_frame_id, frame, payload, handler_result)
                IN /\ data' = out.data
                   /\ next_frame_id' = out.next_frame_id
                   /\ host_call' = [op |-> "process_frame", frame |-> frame,
                                    payload |-> payload, pre |-> data,
                                    pre_frame_id |-> next_frame_id,
                                    res |-> out.res, handled |-> out.handled,
                                    handler_result |-> handler_result]
    /\ UNCHANGED <<auxVars, register_flexible, register_size, overflow_checks, ctxCallVars, errVars,
                   host_id, custom_command_handler, ioVars>>

NextHost == HostProcessFrame

SpecHost == InitHost /\ [][NextHost]_vars

\* The last process_frame call returned Ok(Some((reply frame, payload))).
HostReplied ==
    /\ host_call.op = "process_frame"
    /\ host_call.res.tag = "Ok"
    /\ host_call.res.val.some

HostReply == host_call.res.val.val

\* A payload of a write whose header is whole and whose size field is the length
\* of the data after it.
WellFormedWrite(payload) ==
    /\ Len(payload) >= RAW_DATA_HEADER_SIZE
    /\ FromLE32(SubSeq(payload, 9, 12)) = Len(payload) - RAW_DATA_HEADER_SIZE

\* The last call is a WriteSharedContextUnconfirmed addressed to the host with a
\* well-formed payload.
UnconfirmedWriteCall ==
    /\ host_call.op = "process_frame"
    /\ host_call.frame.command = WriteSharedContextUnconfirmed
    /\ host_call.frame.target \in {host_id, 0}
    /\ WellFormedWrite(host_call.payload)

\* C4: a WriteSharedContextUnconfirmed frame addressed to the host with a
\* well-formed payload gets no reply and stores the data when set_bytes succeeds,
\* and gets exactly one Error frame whose payload starts with the error's code
\* (InvalidRegister or InvalidOffset) when set_bytes fails, the same Error payload
\* as the confirmed WriteSharedContext gets.
C4_UnconfirmedWriteReply ==
    UnconfirmedWriteCall =>
        LET hdr == RawDataHeaderRead(host_call.payload).val
            raw == SubSeq(host_call.payload, RAW_DATA_HEADER_SIZE + 1, Len(host_call.payload))
            set == set_bytes(host_call.pre, register_flexible, hdr.register, hdr.offset, raw)
            confirmed == process_frame(host_id, custom_command_handler, host_call.pre,
                                       register_flexible, overflow_checks,
                                       host_call.pre_frame_id,
                                       [host_call.frame EXCEPT !.command = WriteSharedContext],
                                       host_call.payload, Ok(None))
        IN IF IsOk(set.res)
           THEN /\ host_call.res = Ok(None)
                /\ SubSeq(data[hdr.register + 1], hdr.offset + 1, hdr.offset + Len(raw)) = raw
           ELSE /\ HostReplied
                /\ HostReply.frame.command = ErrorCmd
                /\ set.res.err \in {InvalidRegister, InvalidOffset}
                /\ SubSeq(HostReply.data, 1, 2) = LE16(code(set.res.err))
                /\ HostReply.data = confirmed.res.val.val.data
                /\ confirmed.res.val.val.frame.command = ErrorCmd
                /\ data = host_call.pre

\* C4 witness: an unconfirmed write past the end of a fixed register is answered
\* with an Error frame carrying InvalidOffset.
C4_Witness ==
    /\ UnconfirmedWriteCall
    /\ HostReplied
    /\ HostReply.frame.command = ErrorCmd
    /\ HostReply.data = LE16(ERR_INVALID_OFFSET)

\* C5: every reply frame process_frame returns for a request with id I and source
\* S has in_reply_to = I, target = S and source = the host's id.
C5_ReplyAddressing ==
    HostReplied =>
        /\ HostReply.frame.in_reply_to = host_call.frame.id
        /\ HostReply.frame.target = host_call.frame.source
        /\ HostReply.frame.source = host_id

\* C5 witness: a reply of the custom handler to a request from another host.
C5_Witness ==
    /\ HostReplied
    /\ host_call.handled
    /\ host_call.frame.source \notin {0, host_id}
    /\ host_call.frame.id # host_call.frame.in_reply_to
    /\ HostReply.frame.command = Reply

\* The last call is a request (neither Reply nor Error) for another host.
ForeignRequest ==
    /\ host_call.op = "process_frame"
    /\ host_call.frame.command.tag \notin {"Reply", "Error"}
    /\ host_call.frame.target \notin {host_id, 0}

\* C6: a frame that is neither Reply nor Error and whose target is neither the
\* host's id nor 0 gets exactly one Error frame with payload 0x01 0x00
\* (UnknownHost), whatever its command and payload; the register bank is
\* unchanged and the custom handler is not invoked.
C6_UnknownHost ==
    ForeignRequest =>
        /\ HostReplied
        /\ HostReply.frame.command = ErrorCmd
        /\ HostReply.data = <<1, 0>>
        /\ data = host_call.pre
        /\ ~host_call.handled

\* C6 witness: a well-formed, non-empty write that set_bytes would accept is
\* refused because it is addressed to another host.
C6_Witness ==
    /\ ForeignRequest
    /\ host_call.frame.command = WriteSharedContext
    /\ WellFormedWrite(host_call.payload)
    /\ Len(host_call.payload) > RAW_DATA_HEADER_SIZE
    /\ LET hdr == RawDataHeaderRead(host_call.payload).val
           raw == SubSeq(host_call.payload, RAW_DATA_HEADER_SIZE + 1, Len(host_call.payload))
       IN IsOk(set_bytes(host_call.pre, register_flexible, hdr.register, hdr.offset, raw).res)
    /\ HostReplied
    /\ HostReply.data = <<1, 0>>

\* C12: a frame whose command is Reply or Error gets Ok(None) whatever its
\* target and payload: no reply, no register changed, the custom handler not
\* invoked, no frame id consumed.
C12_StraySwallowed ==
    (host_call.op = "process_frame" /\ host_call.frame.command \in {Reply, ErrorCmd}) =>
        /\ host_call.res = Ok(None)
        /\ data = host_call.pre
        /\ ~host_call.handled
        /\ next_frame_id = host_call.pre_frame_id

\* C12 witness: an Error frame for another host with a payload shorter than an
\* error code, at a host with a custom handler.
C12_Witness ==
    /\ host_call.op = "process_frame"
    /\ host_call.frame.command = ErrorCmd
    /\ host_call.frame.target \notin {host_id, 0}
    /\ host_call.payload = <<1>>
    /\ custom_command_handler

\* The last call is a frame addressed to the host with a command code that is
\* none of the six standard ones.
CustomCommandCall ==
    /\ host_call.op = "process_frame"
    /\ host_call.frame.command.tag = "Other"
    /\ host_call.frame.target \in {host_id, 0}

\* C16: a frame addressed to the host with a non-standard command code gets one
\* Error frame with code InvalidCommand when no handler is installed; with a
\* handler it gets a Reply carrying v for Ok(Some(v)), no reply for Ok(None), an
\* Error frame carrying the handler's error code for Err.  Standard commands
\* never reach the handler.
C16_CustomCommand ==
    /\ CustomCommandCall =>
          IF ~custom_command_handler
          THEN /\ HostReplied
               /\ HostReply.frame.command = ErrorCmd
               /\ HostReply.data = <<2, 0>>
               /\ ~host_call.handled
          ELSE /\ host_call.handled
               /\ CASE host_call.handler_result.tag = "Err" ->
                          /\ HostReplied
                          /\ HostReply.frame.command = ErrorCmd
                          /\ SubSeq(HostReply.data, 1, 2) =
                                LE16(code(host_call.handler_result.err))
                    [] host_call.handler_result.tag = "Ok"
                       /\ host_call.handler_result.val.some ->
                          /\ HostReplied
                          /\ HostReply.frame.command = Reply
                          /\ HostReply.data = host_call.handler_result.val.val
                    [] OTHER -> host_call.res = Ok(None)
    /\ (host_call.op = "process_frame" /\ host_call.frame.command.tag # "Other") =>
          ~host_call.handled

\* C16 witness: the handler's Err(Failed("A")) for a custom command has been
\* answered with an Error frame.
C16_Witness ==
    /\ CustomCommandCall
    /\ custom_command_handler
    /\ host_call.handler_result = Err(Error("Failed", <<65>>))
    /\ HostReplied
    /\ HostReply.frame.command = ErrorCmd

\* C19: every Reply or Error frame the host emits for a request swaps the
\* request's addressing: reply.source = request.target and reply.target =
\* request.source.
C19_ReplySwapsAddressing ==
    HostReplied =>
        /\ HostReply.frame.source = host_call.frame.target
        /\ HostReply.frame.target = host_call.frame.source

----------------------------------------------------------------------------
(* One client and one server processor loop on a stream: Spec.             *)

\* The hosts the client addresses: any host (as the example's client does), and
\* one that the server is not.
SessionTargets == {0, MaxHostId}

\* The registers the client's requests address: the first one, and the first
\* index past the bank.
SessionRegisters == {0, Len(data)}

\* The offsets of the client's requests: the start of a register, and past the
\* end of a register as created.
SessionOffsets == {0, register_size + 1}

ShortHeader == SubSeq(RawDataHeaderBytes(0, 0, 1), 1, RAW_DATA_HEADER_SIZE - 1)

SizeMismatch == RawDataHeaderBytes(0, 0, 2) \o <<1>>

\* The client's direct communicate calls <<command, payload, wait_reply>>, n the
\* number of the call.  Well-formed reads and confirmed writes are made by
\* read_register and write_register, a waited ping by ping.
RawCalls(n) ==
    {<<ReadSharedContext, ShortHeader, TRUE>>,
     <<WriteSharedContext, ShortHeader, TRUE>>,
     <<WriteSharedContext, SizeMismatch, TRUE>>,
     <<WriteSharedContextUnconfirmed,
       RawDataHeaderBytes(0, 0, MaxData) \o DataOf(n, MaxData), FALSE>>,
     <<WriteSharedContextUnconfirmed, SizeMismatch, FALSE>>,
     <<ErrorCmd, ErrorToBytes(InvalidOffset), FALSE>>,
     <<Reply, <<>>, FALSE>>,
     <<Ping, <<>>, FALSE>>,
     <<WriteSharedContextUnconfirmed,
       RawDataHeaderBytes(0, 0, MaxData) \o DataOf(n, MaxData), TRUE>>,
     <<Reply, <<>>, TRUE>>}
    \cup {<<Other(v), DataOf(n, MaxData), TRUE>> : v \in CustomCodes}

Init ==
    /\ \E size \in 0..MaxRegSize :
          /\ data = BasicNew(MaxRegs, size)
          /\ register_size = size
    /\ register_flexible \in BOOLEAN
    /\ overflow_checks \in BOOLEAN
    /\ ctx_call = NoCall
    /\ last_set = None
    /\ ErrIdle
    /\ AuxIdle
    /\ host_id = HOST_ID
    /\ next_frame_id = 0
    /\ custom_command_handler \in BOOLEAN
    /\ host_call = NoCall
    /\ request_id = 0
    /\ target_id \in SessionTargets
    /\ client = NoCall
    /\ prev_write = None
    /\ c2s = <<>>
    /\ s2c = <<>>
    /\ server = "running"
    /\ srv_call = NoCall

\* The client may start a call: it is in none, and has made fewer than MaxRequests.
ClientReady == IF client.op = "none" THEN TRUE ELSE client.pc = "done"

\* The first half of SimpleClient::communicate: take the next request id, write
\* the request; return Ok(None) at once unless wait_reply.
Send(op, args, command, payload, wait_reply) ==
    /\ ClientReady
    /\ request_id < MaxRequests
    /\ request_id' = request_id + 1
    /\ c2s' = c2s \o WritePacket(RequestFrame(target_id, request_id, command), payload)
    /\ client' = [op |-> op, args |-> args, command |-> command, payload |-> payload,
                  wait_reply |-> wait_reply, id |-> request_id,
                  pc |-> IF wait_reply THEN "waiting" ELSE "done",
                  res |-> op_result(op, Ok(None)), reply |-> None]
    /\ prev_write' = IF client.op = "write_register" /\ IsOk(client.res)
                     THEN Some(client.args)
                     ELSE None
    /\ UNCHANGED <<auxVars, ctxVars, ctxCallVars, errVars, hostVars, target_id, s2c, server, srv_call>>

\* client.ping()
ClientPing ==
    /\ ClientReady
    /\ Send("ping", Unit, Ping, <<>>, TRUE)

\* client.read_register(register, offset, size)
ClientReadRegister ==
    \E register \in SessionRegisters, offset \in SessionOffsets, size \in Sizes :
       Send("read_register", [register |-> register, offset |-> offset, size |-> size],
            ReadSharedContext, RawDataHeaderBytes(register, offset, size), TRUE)

\* client.write_register(register, offset, d)
ClientWriteRegister ==
    \E register \in SessionRegisters, offset \in SessionOffsets, len \in 0..MaxData :
       LET d == DataOf(request_id + 1, len)
       IN Send("write_register", [register |-> register, offset |-> offset, d |-> d],
               WriteSharedContext, RawDataHeaderBytes(register, offset, Len(d)) \o d, TRUE)

\* client.communicate(command, payload, wait_reply)
ClientCommunicate ==
    \E call \in RawCalls(request_id + 1) :
       Send("communicate", Unit, call[1], call[2], call[3])

\* The second half of communicate: the reply has arrived, or the stream has ended
\* because the server's loop is over.
ClientReceive ==
    /\ client.op # "none"
    /\ client.pc = "waiting"
    /\ s2c # <<>> \/ server # "running"
    /\ LET got == communicate_reply(s2c, client.id)
       IN /\ s2c' = got.rest
          /\ client' = [client EXCEPT !.pc = "done",
                                      !.res = op_result(client.op, got.res),
                                      !.reply = got.reply]
    /\ UNCHANGED <<auxVars, ctxVars, ctxCallVars, errVars, hostVars, request_id, target_id,
                   prev_write, c2s, server, srv_call>>

\* One iteration of the loop { processor.process_next()? } of the server's
\* connection thread.
ServerProcessNext ==
    /\ server = "running"
    /\ c2s # <<>>
    /\ LET pk == PacketReadFrom(c2s)
           results == IF /\ custom_command_handler
                         /\ IsOk(pk.res)
                         /\ pk.res.val.frame.command.tag = "Other"
                      THEN HandlerResults(ReadExact(pk.rest, pk.res.val.data_len).res.val)
                      ELSE {Ok(None)}
       IN \E handler_result \in results :
             LET r == process_next(c2s, host_id, custom_command_handler, data,
                                   register_flexible, overflow_checks, next_frame_id,
                                   handler_result)
             IN /\ c2s' = r.rest
                /\ s2c' = s2c \o r.out
                /\ data' = r.data
                /\ next_frame_id' = r.next_frame_id
                /\ host_call' = r.call
                /\ srv_call' = [op |-> "process_next", res |-> r.res, out |-> r.out,
                                read |-> Len(c2s) - Len(r.rest)]
                /\ server' = CASE r.res.tag = "Ok" -> "running"
                               [] r.res.tag = "Err" -> "failed"
                               [] OTHER -> "panicked"
    /\ UNCHANGED <<auxVars, register_flexible, register_size, overflow_checks, ctxCallVars, errVars,
                   host_id, custom_command_handler, request_id, target_id, client,
                   prev_write>>

Next ==
    \/ ClientPing
    \/ ClientReadRegister
    \/ ClientWriteRegister
    \/ ClientCommunicate
    \/ ClientReceive
    \/ ServerProcessNext

Spec == Init /\ [][Next]_vars

\* The client's last call has returned.
ClientDone == client.op # "none" /\ client.pc = "done"

\* The client's last call read an Error reply to its own request.
ReadErrorReply ==
    /\ ClientDone
    /\ client.wait_reply
    /\ client.reply.some
    /\ client.reply.val.frame.target = 0
    /\ client.reply.val.frame.in_reply_to = client.id
    /\ client.reply.val.frame.command = ErrorCmd

\* C1: a call of communicate with wait_reply that reads an Error reply (target 0,
\* in_reply_to the id of the request just sent) fails with the error decoded from
\* the reply's payload, and so do ping, read_register and write_register.
C1_ErrorReplyFails ==
    ReadErrorReply => client.res = Err(ErrorFromBytes(client.reply.val.data))

\* The client's last call is a write_register of non-empty data that returned Ok.
WriteReturnedOk ==
    /\ ClientDone
    /\ client.op = "write_register"
    /\ IsOk(client.res)
    /\ client.args.d # <<>>

\* Register `register` of the bank holds d at [offset, offset + len(d)).
Holds(bank, register, offset, d) ==
    /\ register < Len(bank)
    /\ offset + Len(d) <= Len(bank[register + 1])
    /\ Slice(bank[register + 1], offset, offset + Len(d)) = d

\* The client's last call is a read_register that returned, made right after a
\* write_register of non-empty data d that returned Ok, for the same register and
\* offset and for len(d) bytes.
ReadFollowsWrite ==
    /\ ClientDone
    /\ client.op = "read_register"
    /\ prev_write.some
    /\ prev_write.val.d # <<>>
    /\ client.args.register = prev_write.val.register
    /\ client.args.offset = prev_write.val.offset
    /\ client.args.size = Len(prev_write.val.d)

\* C2: when write_register(r, o, d) with non-empty d returns Ok, register r of
\* the host holds d at [o, o + len(d)), and a read_register(r, o, len(d)) that
\* follows it immediately returns exactly d.
C2_WriteThenRead ==
    /\ WriteReturnedOk =>
          Holds(data, client.args.register, client.args.offset, client.args.d)
    /\ ReadFollowsWrite => client.res = Ok(prev_write.val.d)

\* The server's last process_next read a register request addressed to the host
\* (target the host's id or 0) in which the dispatcher detected an error.
DispatcherError ==
    /\ srv_call.op = "process_next"
    /\ host_call.op = "process_frame"
    /\ host_call.frame.command \in {ReadSharedContext, WriteSharedContext}
    /\ host_id_matches(host_id, host_call.frame)
    /\ host_call.res.tag = "Err"

\* C3: when the dispatcher detects an error in a validly framed
\* ReadSharedContext or WriteSharedContext request addressed to the host (a
\* payload shorter than the RawDataHeader and a write whose data length differs
\* from header.size included), process_next writes exactly one Error reply
\* carrying the error's code and returns Ok, and the loop keeps running.
C3_DispatcherErrorReplied ==
    DispatcherError =>
        /\ IsOk(srv_call.res)
        /\ server = "running"
        /\ srv_call.out =
              WritePacket(create_frame(host_id, host_call.pre_frame_id,
                                       host_call.frame.source, host_call.frame.id,
                                       ErrorCmd),
                          LE16(code(host_call.res.err)))

\* C18: with no concurrent writer, read_register(r, o, s) over the protocol
\* gives what a direct get_bytes(r, o, s) on the host's context gives: the same
\* bytes when the local read succeeds, a failure when the local read fails.
C18_ReadMatchesLocal ==
    (/\ ClientDone
     /\ client.op = "read_register"
     /\ client.reply.some
     /\ client.reply.val.frame.in_reply_to = client.id
     /\ host_call.op = "process_frame"
     /\ host_call.frame.id = client.id
     /\ host_id_matches(host_id, host_call.frame)) =>
        LET local == get_bytes(data, register_flexible, overflow_checks,
                               client.args.register, client.args.offset, client.args.size)
        IN IF IsOk(local) THEN client.res = local ELSE IsErr(client.res)

----------------------------------------------------------------------------
(* One client call answered by an arbitrary peer: SpecReply.               *)

\* What the peer at the other end of the stream may write while the client
\* waits: one packet, its frame addressed to the client (0) or not, in reply to
\* any id, with any of three commands.
PeerPackets ==
    {WritePacket(Frame(HOST_ID, tgt, 0, irt, cmd), payload) :
        tgt \in {0, HOST_ID}, irt \in 0..MaxRequests, cmd \in {Reply, ErrorCmd, Ping},
        payload \in {<<>>, DataOf(1, MaxData)}}

\* A client that has made all of its calls but one, connected to a peer.
InitReply ==
    /\ CtxIdle
    /\ ErrIdle
    /\ AuxIdle
    /\ HostIdle
    /\ request_id = MaxRequests - 1
    /\ target_id \in SessionTargets
    /\ client = NoCall
    /\ prev_write = None
    /\ c2s = <<>>
    /\ s2c = <<>>
    /\ server = "running"
    /\ srv_call = NoCall

\* The peer writes a packet for the waiting client.
PeerWrite ==
    /\ client.op # "none"
    /\ client.pc = "waiting"
    /\ s2c = <<>>
    /\ \E packet \in PeerPackets : s2c' = packet
    /\ UNCHANGED <<auxVars, ctxVars, ctxCallVars, errVars, hostVars, request_id, target_id,
                   client, prev_write, c2s, server, srv_call>>

NextReply ==
    \/ ClientPing
    \/ ClientReadRegister
    \/ ClientWriteRegister
    \/ ClientCommunicate
    \/ PeerWrite
    \/ ClientReceive

SpecReply == InitReply /\ [][NextReply]_vars

\* C17: communicate with wait_reply returns a payload only from a reply frame
\* whose target is 0 and whose in_reply_to is the id of this request; when the
\* frame read has another target or another in_reply_to the call fails with
\* InvalidReply.
C17_ReplyValidated ==
    (ClientDone /\ client.wait_reply) =>
        /\ IsOk(client.res) =>
              /\ client.reply.some
              /\ client.reply.val.frame.target = 0
              /\ client.reply.val.frame.in_reply_to = client.id
              /\ client.op = "communicate" => client.res = Ok(Some(client.reply.val.data))
        /\ (/\ client.reply.some
            /\ \/ client.reply.val.frame.target # 0
               \/ client.reply.val.frame.in_reply_to # client.id) =>
              client.res = Err(InvalidReply)

\* C17 witness: a communicate call has read a frame with target 0 in reply to
\* another id and has failed with InvalidReply.
C17_Witness ==
    /\ ClientDone
    /\ client.op = "communicate"
    /\ client.wait_reply
    /\ client.reply.some
    /\ client.reply.val.frame.target = 0
    /\ client.reply.val.frame.in_reply_to # client.id
    /\ client.res = Err(InvalidReply)

\* C25, as claimed: whatever calls came before on the stream, calls with
\* wait_reply = FALSE included, a call with wait_reply = TRUE that reads a reply
\* reads the reply to its own request and never fails with InvalidReply: no
\* reply to an earlier request was left unread.
C25_OwnReplyRead ==
    (ClientDone /\ client.wait_reply /\ client.reply.some) =>
        /\ client.reply.val.frame.in_reply_to = client.id
        /\ client.res # Err(InvalidReply)

\* The client is inside a call, waiting for the reply.
ClientWaiting == client.op # "none" /\ client.pc = "waiting"

\* The server's loop can run an iteration: the guard of ServerProcessNext, whose
\* step always takes bytes off the stream.
ServerCanStep == server = "running" /\ c2s # <<>>

\* The client's blocking read can return: the guard of ClientReceive.
ClientCanReceive == ClientWaiting /\ (s2c # <<>> \/ server # "running")

\* A session whose client has made all of its calls but one, with nothing of
\* them left on the stream.
InitFair ==
    /\ \E size \in 0..MaxRegSize :
          /\ data = BasicNew(MaxRegs, size)
          /\ register_size = size
    /\ register_flexible \in BOOLEAN
    /\ overflow_checks \in BOOLEAN
    /\ ctx_call = NoCall
    /\ last_set = None
    /\ ErrIdle
    /\ AuxIdle
    /\ host_id = HOST_ID
    /\ next_frame_id = 0
    /\ custom_command_handler \in BOOLEAN
    /\ host_call = NoCall
    /\ request_id = MaxRequests - 1
    /\ target_id \in SessionTargets
    /\ client = NoCall
    /\ prev_write = None
    /\ c2s = <<>>
    /\ s2c = <<>>
    /\ server = "running"
    /\ srv_call = NoCall

\* That session with the server's loop thread scheduled fairly and the client's
\* blocking read returning once bytes have arrived or the stream has ended: weak
\* fairness of ServerProcessNext and of ClientReceive, written out with the
\* guards of the two actions for their enabledness.
SpecFair ==
    /\ InitFair
    /\ [][Next]_vars
    /\ []<>(~ServerCanStep) \/ []<><<ServerProcessNext>>_vars
    /\ []<>(~ClientCanReceive) \/ []<><<ClientReceive>>_vars

\* C26, as claimed: with a fairly scheduled server loop every communicate call
\* with wait_reply = TRUE eventually returns, whatever its command and payload,
\* because the server never consumes a request, keeps the connection open and
\* writes nothing while the client is waiting: a waiting call is never left with
\* nothing to read and nothing for the server to do.
C26_NeverSilent ==
    ClientWaiting => (ServerCanStep \/ ClientCanReceive)

\* The host has handled the waiting client's request without a reply, by design:
\* a Reply or Error frame, an unconfirmed write that was applied, or a custom
\* command whose handler returned None.  The connection stays open.
LeftUnanswered ==
    /\ ClientWaiting
    /\ server = "running"
    /\ host_call.op = "process_frame"
    /\ host_call.frame.id = client.id
    /\ host_call.res = Ok(None)
    /\ \/ host_call.frame.command \in {Reply, ErrorCmd}
       \/ host_call.frame.command = WriteSharedContextUnconfirmed
       \/ /\ host_call.frame.command.tag = "Other"
          /\ host_call.handled
          /\ host_call.handler_result = Ok(None)

\* C26, amended: every communicate call with wait_reply = TRUE eventually
\* returns, unless its request is one the host leaves unanswered with the
\* connection open: a Reply or Error frame, an unconfirmed write that the host
\* applied, or a custom command whose handler returned None.
C26_AnsweredCallReturns == ClientWaiting ~> (ClientDone \/ LeftUnanswered)

\* C26 witness: a waited custom command has returned the handler's answer.
C26_Witness ==
    /\ ClientDone
    /\ client.wait_reply
    /\ client.command.tag = "Other"
    /\ host_call.op = "process_frame"
    /\ host_call.handled
    /\ host_call.handler_result.tag = "Ok"
    /\ host_call.handler_result.val.some
    /\ client.res = Ok(Some(host_call.handler_result.val.val))

----------------------------------------------------------------------------
(* A server processor loop fed by a peer that writes its own bytes:        *)
(* SpecServe.                                                              *)

\* The bytes of `packet` behind another 7-byte header.
WithHeader(header, packet) ==
    header \o SubSeq(packet, PACKET_HEADER_SIZE + 1, Len(packet))

\* What the peer writes as its n-th packet: requests as a client frames them (one
\* answered, one for another host, one applied without a reply, one the host
\* fails on, a custom one, a stray reply), and the bytes of a ping behind a
\* header with another version, with a size below Frame::SIZE, or with another
\* magic.
ServePackets(n) ==
    LET ping == WritePacket(Frame(0, 0, n, 0, Ping), <<>>)
        foreign == [PacketHeaderBytes(VERSION, FRAME_SIZE) EXCEPT ![1] = 88]
    IN {ping,
        WritePacket(Frame(0, MaxHostId, n, 0, Ping), <<>>),
        WritePacket(Frame(0, 0, n, 0, WriteSharedContextUnconfirmed),
                    RawDataHeaderBytes(0, 0, MaxData) \o DataOf(n + 1, MaxData)),
        WritePacket(Frame(0, HOST_ID, n, 0, ReadSharedContext), ShortHeader),
        WritePacket(Frame(0, 0, n, 0, Other(32768)), DataOf(n + 1, MaxData)),
        WritePacket(Frame(HOST_ID, 0, n, n, Reply), <<>>),
        WithHeader(PacketHeaderBytes(VERSION + 1, FRAME_SIZE), ping),
        WithHeader(PacketHeaderBytes(VERSION + 1, 0), ping),
        WithHeader(PacketHeaderBytes(VERSION, FRAME_SIZE - 1), ping),
        WithHeader(foreign, ping)}

\* A host behind a server processor loop, no SimpleClient on the stream.
InitServe == Init /\ target_id = 0

\* The peer writes its next packet to the stream.
PeerSend ==
    /\ request_id < MaxRequests
    /\ request_id' = request_id + 1
    /\ \E packet \in ServePackets(request_id) : c2s' = c2s \o packet
    /\ UNCHANGED <<auxVars, ctxVars, ctxCallVars, errVars, hostVars, target_id, client,
                   prev_write, s2c, server, srv_call>>

NextServe == PeerSend \/ ServerProcessNext

SpecServe == InitServe /\ [][NextServe]_vars

\* The bytes `out` are exactly one packet with its data.
OnePacket(out) ==
    LET pk == PacketReadFrom(out)
    IN IsOk(pk.res) /\ Len(pk.rest) = pk.res.val.data_len

\* C24: a process_next call that returns Ok has consumed exactly one packet,
\* 7 + header.size bytes, has invoked the host once, with the frame and the data
\* of that packet, and has written no reply or exactly one reply packet.  When
\* the header is rejected (version # 0x00: UnsupportedVersion; size < 19:
\* InvalidData) the call returns that error with only the 7 header bytes
\* consumed, the host not invoked, no register changed and nothing written, and
\* the connection loop ends.
C24_ProcessNextOnePacket ==
    [][Len(c2s') < Len(c2s) =>
          LET header == SubSeq(c2s, 1, PACKET_HEADER_SIZE)
              version == header[3]
              size == FromLE32(SubSeq(header, 4, 7))
              consumed == Len(c2s) - Len(c2s')
              call == srv_call'
          IN /\ call.res = Ok(Unit) =>
                   /\ consumed = PACKET_HEADER_SIZE + size
                   /\ c2s' = SubSeq(c2s, consumed + 1, Len(c2s))
                   /\ host_call'.op = "process_frame"
                   /\ host_call'.frame
                         = FrameRead(SubSeq(c2s, PACKET_HEADER_SIZE + 1,
                                            PACKET_HEADER_SIZE + FRAME_SIZE))
                   /\ host_call'.payload
                         = SubSeq(c2s, PACKET_HEADER_SIZE + FRAME_SIZE + 1, consumed)
                   /\ call.out = <<>> \/ OnePacket(call.out)
                   /\ s2c' = s2c \o call.out
                   /\ server' = "running"
             /\ (SubSeq(header, 1, 2) = <<82, 68>> /\ (version # 0 \/ size < 19)) =>
                   /\ call.res = Err(IF version # 0 THEN UnsupportedVersion
                                     ELSE InvalidData)
                   /\ consumed = PACKET_HEADER_SIZE
                   /\ c2s' = SubSeq(c2s, PACKET_HEADER_SIZE + 1, Len(c2s))
                   /\ host_call' = NoCall
                   /\ data' = data
                   /\ next_frame_id' = next_frame_id
                   /\ s2c' = s2c
                   /\ server' = "failed"]_vars

\* C24 witness: after a call that wrote a reply, a call has rejected a header for
\* its version with the rest of that packet left on the stream.
C24_Witness ==
    /\ srv_call.op = "process_next"
    /\ srv_call.res = Err(UnsupportedVersion)
    /\ srv_call.read = PACKET_HEADER_SIZE
    /\ Len(c2s) = FRAME_SIZE
    /\ OnePacket(s2c)
    /\ host_call = NoCall
    /\ server = "failed"

----------------------------------------------------------------------------
(* Threads that share the registers of a context: SpecLock.                *)

Writers == {"w1", "w2"}
Readers == {"r"}

\* The data writer w passes to set_bytes: WriteLen non-zero bytes of its own.
WriterData(w) == DataOf(IF w = "w1" THEN 1 ELSE 2, WriteLen)

\* reg_data.lock() with the mutex taken whoever holds it.
lock_unguarded(holder) == TRUE

\* reg_data.lock(): the mutex can be taken when nobody holds it.
lock(holder) == holder = Free

\* The guard dropped without the mutex being released (mem::forget).
drop_guard_leaked(locks, register) == locks

\* The MutexGuard of a register goes out of scope, or drop(reg_data).
drop_guard(locks, register) == [locks EXCEPT ![register + 1] = Free]

\* The registers of the shared context.
LockRegs == 2

\* The register thread t addresses.
RegisterOf(t) == thr_local[t].register

\* Every thread calls set_bytes or get_bytes once, for a register of the bank or
\* for the first index past it, all at the same offset; the readers ask for
\* WriteLen bytes.
InitLock ==
    /\ \E size \in 0..(WriteLen + 1) :
          /\ data = BasicNew(LockRegs, size)
          /\ register_size = size
    /\ register_flexible \in BOOLEAN
    /\ overflow_checks = FALSE
    /\ ctx_call = NoCall
    /\ last_set = None
    /\ ErrIdle
    /\ HostIdle
    /\ IoIdle
    /\ PktIdle
    /\ UdpIdle
    /\ reg_lock = [i \in 1..LockRegs |-> Free]
    /\ created = <<>>
    /\ thr_pc = [t \in Writers \cup Readers |-> "lock"]
    /\ \E offset \in 0..1, register \in [Writers \cup Readers -> 0..LockRegs] :
          thr_local = [t \in Writers \cup Readers |->
                          [register |-> register[t], offset |-> offset, i |-> 0,
                           buf |-> <<>>, res |-> None]]

LockUnchanged ==
    UNCHANGED <<register_flexible, register_size, overflow_checks, ctxCallVars, errVars,
                hostVars, ioVars, pktVars, udpVars, created>>

\* self.data.get(register), Err(InvalidRegister) for an index past the bank, and
\* let reg_data = reg_data.lock(), in set_bytes and in get_bytes
ThreadLock ==
    \E t \in Writers \cup Readers :
       /\ thr_pc[t] = "lock"
       /\ IF RegisterOf(t) >= Len(data)
          THEN /\ thr_local' = [thr_local EXCEPT ![t].res = Some(Err(InvalidRegister))]
               /\ thr_pc' = [thr_pc EXCEPT ![t] = "done"]
               /\ UNCHANGED reg_lock
          ELSE /\ lock(reg_lock[RegisterOf(t) + 1])
               /\ reg_lock' = [reg_lock EXCEPT ![RegisterOf(t) + 1] = t]
               /\ thr_pc' = [thr_pc EXCEPT ![t] = "check"]
               /\ UNCHANGED thr_local
       /\ UNCHANGED data
       /\ LockUnchanged

\* set_bytes: the length test; Err(InvalidOffset) with the guard dropped, or the
\* resize of a flexible register.
SetCheck ==
    \E w \in Writers :
       /\ thr_pc[w] = "check"
       /\ LET need == thr_local[w].offset + WriteLen
              reg == RegisterOf(w) + 1
          IN IF Len(data[reg]) < need /\ ~register_flexible
             THEN /\ thr_local' = [thr_local EXCEPT ![w].res = Some(Err(InvalidOffset))]
                  /\ thr_pc' = [thr_pc EXCEPT ![w] = "done"]
                  /\ reg_lock' = drop_guard(reg_lock, RegisterOf(w))
                  /\ UNCHANGED data
             ELSE /\ data' = IF Len(data[reg]) < need
                             THEN [data EXCEPT ![reg] = Resize(data[reg], need)]
                             ELSE data
                  /\ thr_pc' = [thr_pc EXCEPT ![w] = "copy"]
                  /\ UNCHANGED <<thr_local, reg_lock>>
       /\ LockUnchanged

\* set_bytes: copy_from_slice, one byte of it; after the last byte, Ok(()) with
\* the guard dropped.
SetCopy ==
    \E w \in Writers :
       /\ thr_pc[w] = "copy"
       /\ LET i == thr_local[w].i
          IN IF i < WriteLen
             THEN /\ data' = [data EXCEPT ![RegisterOf(w) + 1][thr_local[w].offset + i + 1] =
                                              WriterData(w)[i + 1]]
                  /\ thr_local' = [thr_local EXCEPT ![w].i = i + 1]
                  /\ UNCHANGED <<thr_pc, reg_lock>>
             ELSE /\ thr_local' = [thr_local EXCEPT ![w].res = Some(Ok(Unit))]
                  /\ thr_pc' = [thr_pc EXCEPT ![w] = "done"]
                  /\ reg_lock' = drop_guard(reg_lock, RegisterOf(w))
                  /\ UNCHANGED data
       /\ LockUnchanged

\* get_bytes: the offset test; past the end it returns with the guard dropped.
GetCheck ==
    \E r \in Readers :
       /\ thr_pc[r] = "check"
       /\ IF thr_local[r].offset > Len(data[RegisterOf(r) + 1])
          THEN /\ thr_local' = [thr_local EXCEPT ![r].res =
                                   Some(IF register_flexible THEN Ok(Zeros(WriteLen))
                                        ELSE Err(InvalidOffset))]
               /\ thr_pc' = [thr_pc EXCEPT ![r] = "done"]
               /\ reg_lock' = drop_guard(reg_lock, RegisterOf(r))
          ELSE /\ thr_pc' = [thr_pc EXCEPT ![r] = "copy"]
               /\ UNCHANGED <<thr_local, reg_lock>>
       /\ UNCHANGED data
       /\ LockUnchanged

\* get_bytes: reg_data[offset..min(len, offset + data_size)].to_vec(), one byte of
\* it; after the last byte, drop(reg_data).
GetCopy ==
    \E r \in Readers :
       /\ thr_pc[r] = "copy"
       /\ LET at == thr_local[r].offset + thr_local[r].i
          IN IF at < Min(Len(data[RegisterOf(r) + 1]), thr_local[r].offset + WriteLen)
             THEN /\ thr_local' = [thr_local EXCEPT ![r].buf = Append(@, data[RegisterOf(r) + 1][at + 1]),
                                                    ![r].i = @ + 1]
                  /\ UNCHANGED <<thr_pc, reg_lock>>
             ELSE /\ thr_pc' = [thr_pc EXCEPT ![r] = "resize"]
                  /\ reg_lock' = drop_guard(reg_lock, RegisterOf(r))
                  /\ UNCHANGED thr_local
       /\ UNCHANGED data
       /\ LockUnchanged

\* get_bytes: after the guard is dropped, a short result is an error or is
\* extended with zeros.
GetReturn ==
    \E r \in Readers :
       /\ thr_pc[r] = "resize"
       /\ thr_local' = [thr_local EXCEPT ![r].res =
                           Some(IF Len(thr_local[r].buf) < WriteLen
                                THEN IF register_flexible
                                     THEN Ok(Resize(thr_local[r].buf, WriteLen))
                                     ELSE Err(InvalidOffset)
                                ELSE Ok(thr_local[r].buf))]
       /\ thr_pc' = [thr_pc EXCEPT ![r] = "done"]
       /\ UNCHANGED <<data, reg_lock>>
       /\ LockUnchanged

NextLock == ThreadLock \/ SetCheck \/ SetCopy \/ GetCheck \/ GetCopy \/ GetReturn

SpecLock == InitLock /\ [][NextLock]_vars

\* The bytes a get_bytes of a reader returned.
ReadResult(r) == thr_local[r].res.val.val

\* C13: under every interleaving of set_bytes and get_bytes calls of different
\* threads on one register, a get_bytes over the written range returns all of
\* the bytes of a write or none of them: each set_bytes, the growth of a
\* flexible register included, is applied atomically.
C13_WritesAtomic ==
    \A r \in Readers :
       (thr_pc[r] = "done" /\ IsOk(thr_local[r].res.val)) =>
          /\ Len(ReadResult(r)) = WriteLen
          /\ \A w \in Writers :
                \/ ReadResult(r) = WriterData(w)
                \/ \A i \in 1..WriteLen : ReadResult(r)[i] # WriterData(w)[i]

\* C13 witness: a reader has returned the bytes of the second writer from a
\* flexible register that the writers had to grow.
C13_Witness ==
    /\ register_flexible
    /\ register_size = 0
    /\ thr_pc["r"] = "done"
    /\ thr_local["r"].res.val = Ok(WriterData("w2"))
    /\ thr_pc["w1"] = "done"
    /\ RegisterOf("w1") = RegisterOf("r")

\* The locks thread t holds, as indices of the bank.
Held(t) == {i \in 1..Len(reg_lock) : reg_lock[i] = t}

\* C30: every get_bytes / set_bytes call holds at most one lock, that of the
\* register it addresses, holds it only between its lock() and its return or
\* drop, and holds none once it has returned, with Ok or with any error; a call
\* with register >= N takes no lock and returns InvalidRegister.  A thread that
\* waits for a lock waits for a call on the same register, and as long as a call
\* has not returned some call can take a step: no deadlock.
C30_LockDiscipline ==
    /\ \A t \in Writers \cup Readers :
          /\ Held(t) \subseteq {RegisterOf(t) + 1}
          /\ thr_pc[t] \in {"check", "copy"} <=> Held(t) # {}
          /\ thr_pc[t] = "done" => thr_local[t].res.some
          /\ RegisterOf(t) >= Len(data) =>
                /\ thr_pc[t] \in {"lock", "done"}
                /\ thr_pc[t] = "done" => thr_local[t].res.val = Err(InvalidRegister)
          /\ (thr_pc[t] = "lock" /\ RegisterOf(t) < Len(data)) =>
                LET holder == reg_lock[RegisterOf(t) + 1]
                IN holder # Free =>
                      /\ RegisterOf(holder) = RegisterOf(t)
                      /\ thr_pc[holder] \in {"check", "copy"}
    /\ (\E t \in Writers \cup Readers : thr_pc[t] # "done") => ENABLED NextLock

\* C30 witness: the two writers hold the locks of different registers at the
\* same time, after a call for an index past the bank has returned
\* InvalidRegister without a lock.
C30_Witness ==
    /\ thr_pc["w1"] = "copy"
    /\ thr_pc["w2"] = "copy"
    /\ RegisterOf("w1") # RegisterOf("w2")
    /\ reg_lock[RegisterOf("w1") + 1] = "w1"
    /\ reg_lock[RegisterOf("w2") + 1] = "w2"
    /\ thr_pc["r"] = "done"
    /\ thr_local["r"].res.val = Err(InvalidRegister)

----------------------------------------------------------------------------
(* Threads that share one HostInner through cloned Host handles: SpecIds.  *)

\* The connection threads, each with a clone of the host.
HostThreads == {1, 2}

\* fetch_add that returns the counter and leaves it as it is.
fetch_add_stuck(counter) == [ret |-> counter, new |-> counter]

\* AtomicU32::fetch_add(1, Relaxed): one indivisible read-modify-write.  (The
\* counter of the model stays far below 2^32, where it would wrap.)
fetch_add(counter) == [ret |-> counter, new |-> counter + 1]

InitIds ==
    /\ CtxIdle
    /\ ErrIdle
    /\ IoIdle
    /\ PktIdle
    /\ UdpIdle
    /\ host_id = HOST_ID
    /\ next_frame_id = 0
    /\ custom_command_handler \in BOOLEAN
    /\ host_call = NoCall
    /\ reg_lock = Free
    /\ created = <<>>
    /\ thr_pc = [t \in HostThreads |-> "fetch_add"]
    /\ thr_local = [t \in HostThreads |-> [n |-> 0, frame_id |-> 0]]

IdsUnchanged ==
    UNCHANGED <<ctxVars, ctxCallVars, errVars, host_id, custom_command_handler, host_call,
                ioVars, pktVars, udpVars, reg_lock>>

\* create_frame, its first statement: thread t takes a frame id.
CreateFetchAdd ==
    \E t \in HostThreads :
       /\ thr_pc[t] = "fetch_add"
       /\ thr_local[t].n < MaxCreated
       /\ LET r == fetch_add(next_frame_id)
          IN /\ next_frame_id' = r.new
             /\ thr_local' = [thr_local EXCEPT ![t].frame_id = r.ret]
       /\ thr_pc' = [thr_pc EXCEPT ![t] = "frame"]
       /\ UNCHANGED created
       /\ IdsUnchanged

\* create_frame, its value: the frame with that id, here the Reply to a Ping
\* that thread t's peer sent.
CreateReturn ==
    \E t \in HostThreads :
       /\ thr_pc[t] = "frame"
       /\ created' = Append(created, Frame(host_id, t, thr_local[t].frame_id,
                                           thr_local[t].n, Reply))
       /\ thr_local' = [thr_local EXCEPT ![t].n = @ + 1]
       /\ thr_pc' = [thr_pc EXCEPT ![t] = "fetch_add"]
       /\ UNCHANGED next_frame_id
       /\ IdsUnchanged

NextIds == CreateFetchAdd \/ CreateReturn

SpecIds == InitIds /\ [][NextIds]_vars

\* The frame ids handed out so far: those of the frames returned and those
\* taken by a thread that has not returned its frame yet.
IdsTaken ==
    [i \in 1..Len(created) |-> created[i].id]
    \o [k \in 1..Cardinality({t \in HostThreads : thr_pc[t] = "frame"}) |->
          LET holders == {t \in HostThreads : thr_pc[t] = "frame"}
              nth == CHOOSE t \in holders :
                        Cardinality({u \in holders : u < t}) = k - 1
          IN thr_local[nth].frame_id]

\* C14: under every interleaving of create_frame calls through cloned handles
\* no two frames of the host carry the same id: each call returns the counter's
\* previous value and advances the shared counter by exactly one.
C14_FrameIdsUnique ==
    /\ \A i, j \in 1..Len(IdsTaken) : i # j => IdsTaken[i] # IdsTaken[j]
    /\ {IdsTaken[i] : i \in 1..Len(IdsTaken)} = 0..(next_frame_id - 1)
    /\ next_frame_id = Len(IdsTaken)

\* C14 witness: both threads have created all of their frames, the first
\* thread's first frame after a frame of the second thread.
C14_Witness ==
    /\ Len(created) = 2 * MaxCreated
    /\ \E i, j \in 1..Len(created) :
          /\ i < j
          /\ created[i].target = 2
          /\ created[j].target = 1
          /\ created[j].in_reply_to = 0
          /\ created[i].id < created[j].id

----------------------------------------------------------------------------
(* io.rs: UdpStream, a UDP socket as a Read/Write stream: SpecUdp.         *)

MAX_UDP_PACKET_SIZE == 16384

\* std::io::Error::new(kind, ..)
IoError(kind) == [kind |-> kind]

\* The addresses of the peers.
Peers == {"a", "b"}

\* The sender of a datagram recorded only while no peer is known.
recv_peer_first(current, addr) == IF current.some THEN current ELSE Some(addr)

\* read: self.peer = Some(addr), after recv_from
recv_peer(current, addr) == Some(addr)

\* The length test of flush with a datagram of exactly mtu bytes refused.
too_large_at_mtu(len, limit) == len >= limit

\* flush: data.len() > self.mtu
too_large(len, limit) == len > limit

\* flush with the buffer taken only when the datagram is sent: a flush that
\* fails leaves the bytes in the write buffer.
flush_keeps_failed(to, limit, buffer, sent) ==
    IF ~to.some
    THEN [res |-> Err(IoError("NotConnected")), write_buffer |-> buffer, sent |-> sent]
    ELSE IF too_large(Len(buffer), limit)
    THEN [res |-> Err(IoError("InvalidInput")), write_buffer |-> buffer, sent |-> sent]
    ELSE [res |-> Ok(Unit), write_buffer |-> <<>>,
          sent |-> Append(sent, [to |-> to.val, data |-> buffer])]

\* <UdpStream as Write>::flush: its result, the write buffer and the datagrams
\* sent afterwards.  mem::take empties the write buffer before the tests.
flush(to, limit, buffer, sent) ==
    IF ~to.some
    THEN [res |-> Err(IoError("NotConnected")), write_buffer |-> <<>>, sent |-> sent]
    ELSE IF too_large(Len(buffer), limit)
    THEN [res |-> Err(IoError("InvalidInput")), write_buffer |-> <<>>, sent |-> sent]
    ELSE [res |-> Ok(Unit), write_buffer |-> <<>>,
          sent |-> Append(sent, [to |-> to.val, data |-> buffer])]

\* UdpStream::try_with_mtu on a stream whose mtu is `current`: the result and the
\* mtu of the stream returned (on Err the stream is dropped with the call).
try_with_mtu(current, max_packet_size) ==
    IF max_packet_size > MAX_UDP_PACKET_SIZE
    THEN [res |-> Err(Error("Io", IoError("InvalidInput"))), mtu |-> current]
    ELSE [res |-> Ok(Unit), mtu |-> max_packet_size]

\* The values asked of try_with_mtu: small ones, the ceiling and one above it.
MtuRequests == (0..MaxMtu) \cup {MAX_UDP_PACKET_SIZE, MAX_UDP_PACKET_SIZE + 1}

\* The stream was consumed by a try_with_mtu that returned Err.
Dropped == udp_call.op = "try_with_mtu" /\ udp_call.res.tag = "Err"

\* A call on the stream may start.
UdpReady == udp_call.n < MaxUdpCalls /\ ~Dropped

\* UdpStream::create
InitUdp ==
    /\ CtxIdle
    /\ ErrIdle
    /\ HostIdle
    /\ IoIdle
    /\ PktIdle
    /\ ThrIdle
    /\ peer = None
    /\ mtu = MAX_UDP_PACKET_SIZE
    /\ read_buffer = <<>>
    /\ write_buffer = <<>>
    /\ unflushed = <<>>
    /\ socket_sent = <<>>
    /\ udp_call = NoCall
    /\ socket_queue = <<>>
    /\ peer_request_id = <<>>

UdpUnchanged ==
    UNCHANGED <<ctxVars, ctxCallVars, errVars, hostVars, ioVars, pktVars, thrVars,
                socket_queue, peer_request_id>>

UdpCall(op, res) ==
    [op |-> op, n |-> udp_call.n + 1, res |-> res, pre_peer |-> peer,
     pre_unflushed |-> unflushed, pre_sent |-> socket_sent]

\* stream = stream.try_with_mtu(max_packet_size)?
UdpTryWithMtu ==
    /\ UdpReady
    /\ \E max_packet_size \in MtuRequests :
          LET r == try_with_mtu(mtu, max_packet_size)
          IN /\ mtu' = r.mtu
             /\ udp_call' = [UdpCall("try_with_mtu", r.res)
                                EXCEPT !.op = "try_with_mtu"]
                            @@ [max_packet_size |-> max_packet_size]
    /\ UNCHANGED <<peer, read_buffer, write_buffer, unflushed, socket_sent>>
    /\ UdpUnchanged

\* stream.set_peer(addr)
UdpSetPeer ==
    /\ UdpReady
    /\ \E addr \in Peers : peer' = Some(addr)
    /\ udp_call' = UdpCall("set_peer", Ok(Unit))
    /\ UNCHANGED <<mtu, read_buffer, write_buffer, unflushed, socket_sent>>
    /\ UdpUnchanged

\* stream.write(buf), with one byte or with MaxMtu bytes
UdpWrite ==
    /\ UdpReady
    /\ \E len \in {1, MaxMtu} :
          LET buf == DataOf(udp_call.n + 1, len)
          IN /\ write_buffer' = write_buffer \o buf
             /\ unflushed' = unflushed \o buf
             /\ udp_call' = UdpCall("write", Ok(len))
    /\ UNCHANGED <<mtu, peer, read_buffer, socket_sent>>
    /\ UdpUnchanged

\* stream.flush()
UdpFlush ==
    /\ UdpReady
    /\ LET r == flush(peer, mtu, write_buffer, socket_sent)
       IN /\ write_buffer' = r.write_buffer
          /\ socket_sent' = r.sent
          /\ udp_call' = UdpCall("flush", r.res)
    /\ unflushed' = <<>>
    /\ UNCHANGED <<mtu, peer, read_buffer>>
    /\ UdpUnchanged

\* stream.read(buf) with a buffer of one byte: with the read buffer empty it
\* receives one datagram of two bytes from some peer and records that peer.
UdpRead ==
    /\ UdpReady
    /\ \E from \in IF read_buffer = <<>> THEN Peers ELSE {"none"} :
          LET filled == IF read_buffer = <<>> THEN <<9, 8>> ELSE read_buffer
              size == Min(1, Len(filled))
          IN /\ peer' = IF read_buffer = <<>> THEN recv_peer(peer, from) ELSE peer
             /\ read_buffer' = SubSeq(filled, size + 1, Len(filled))
             /\ udp_call' = UdpCall("read", Ok(SubSeq(filled, 1, size)))
    /\ UNCHANGED <<mtu, write_buffer, unflushed, socket_sent>>
    /\ UdpUnchanged

NextUdp == UdpTryWithMtu \/ UdpSetPeer \/ UdpWrite \/ UdpFlush \/ UdpRead

SpecUdp == InitUdp /\ [][NextUdp]_vars

\* C20: flush sends all bytes written since the previous flush as exactly one
\* datagram to the recorded peer; it fails with NotConnected and sends nothing
\* when no peer is known, and fails with InvalidInput and sends nothing when
\* the accumulated length exceeds mtu (a length equal to mtu is sent).
C20_FlushOneDatagram ==
    udp_call.op = "flush" =>
        IF ~udp_call.pre_peer.some
        THEN /\ udp_call.res = Err(IoError("NotConnected"))
             /\ socket_sent = udp_call.pre_sent
        ELSE IF Len(udp_call.pre_unflushed) > mtu
        THEN /\ udp_call.res = Err(IoError("InvalidInput"))
             /\ socket_sent = udp_call.pre_sent
        ELSE /\ udp_call.res = Ok(Unit)
             /\ socket_sent = Append(udp_call.pre_sent,
                                     [to |-> udp_call.pre_peer.val,
                                      data |-> udp_call.pre_unflushed])

\* C20 witness: two writes that together are exactly mtu bytes long have been
\* flushed as one datagram.
C20_Witness ==
    /\ udp_call.op = "flush"
    /\ udp_call.res = Ok(Unit)
    /\ mtu = 2
    /\ Len(udp_call.pre_unflushed) = mtu
    /\ udp_call.pre_unflushed[2] # udp_call.pre_unflushed[1] + 1
    /\ Len(socket_sent) = 1

\* C21, as claimed: the mtu is 16384 after creation and never above it; a
\* try_with_mtu with a value above 16384 succeeds and leaves the mtu at 16384,
\* one with a value at or below 16384 sets the mtu to that value.
C21_MtuClamped ==
    /\ mtu <= MAX_UDP_PACKET_SIZE
    /\ udp_call.op = "none" => mtu = MAX_UDP_PACKET_SIZE
    /\ udp_call.op = "try_with_mtu" =>
          /\ udp_call.res = Ok(Unit)
          /\ mtu = Min(udp_call.max_packet_size, MAX_UDP_PACKET_SIZE)

\* C28: after every flush, successful or failed, the write buffer is empty; the
\* write buffer never holds bytes written before the most recent flush call, so
\* a datagram sent by a flush holds exactly the bytes written since the flush
\* call before it.
C28_FlushDiscards ==
    /\ write_buffer = unflushed
    /\ udp_call.op = "flush" =>
          /\ write_buffer = <<>>
          /\ \/ socket_sent = udp_call.pre_sent
             \/ /\ Len(socket_sent) = Len(udp_call.pre_sent) + 1
                /\ socket_sent[Len(socket_sent)].data = udp_call.pre_unflushed

\* C28 witness: a flush refused for its length has discarded the bytes written.
C28_Witness ==
    /\ udp_call.op = "flush"
    /\ udp_call.res = Err(IoError("InvalidInput"))
    /\ Len(udp_call.pre_unflushed) > mtu
    /\ write_buffer = <<>>
    /\ socket_sent = <<>>

----------------------------------------------------------------------------
(* A server processor loop on a UdpStream, with clients that send to its   *)
(* socket: SpecUdpServe.                                                   *)

\* <UdpStream as Read>::read with a buffer of n bytes (n > 0), on the stream
\* state st = [peer, read_buffer, queue], queue the datagrams that wait at the
\* socket: the bytes put in the buffer and the state afterwards.  With the read
\* buffer empty it takes the first datagram of the queue (recv_from).
UdpStreamRead(st, n) ==
    LET received == st.read_buffer = <<>>
        filled == IF received THEN Head(st.queue).data ELSE st.read_buffer
        size == Min(n, Len(filled))
    IN [bytes |-> SubSeq(filled, 1, size),
        st |-> [peer |-> IF received THEN recv_peer(st.peer, Head(st.queue).from)
                         ELSE st.peer,
                read_buffer |-> SubSeq(filled, size + 1, Len(filled)),
                queue |-> IF received THEN Tail(st.queue) ELSE st.queue]]

\* Read::read_exact for n bytes in all on a UdpStream, in one call or in several:
\* read is called until the bytes are there, and not at all for no bytes.  The
\* stream state afterwards.  (No datagram is empty.)
RECURSIVE UdpReadExact(_, _)
UdpReadExact(st, n) ==
    IF n = 0 THEN st
    ELSE LET r == UdpStreamRead(st, n)
         IN UdpReadExact(r.st, n - Len(r.bytes))

\* The bytes of the datagrams of a queue, in order.
RECURSIVE QueueBytes(_)
QueueBytes(queue) ==
    IF queue = <<>> THEN <<>> ELSE Head(queue).data \o QueueBytes(Tail(queue))

\* The requests a client sends <<target, command, payload>>: a ping, a ping for
\* another host, a read of register 0 to its end, an unconfirmed write.
UdpRequests(n) ==
    {<<0, Ping, <<>>>>,
     <<MaxHostId, Ping, <<>>>>,
     <<0, ReadSharedContext, RawDataHeaderBytes(0, 0, 0)>>,
     <<0, WriteSharedContextUnconfirmed,
       RawDataHeaderBytes(0, 0, MaxData) \o DataOf(n, MaxData)>>}

\* UdpStream::create for the server, whose mtu is the default or just a packet
\* without data; a host on a context; clients that have sent nothing.
InitUdpServe ==
    /\ data = BasicNew(MaxRegs, MaxRegSize)
    /\ register_size = MaxRegSize
    /\ register_flexible \in BOOLEAN
    /\ overflow_checks = FALSE
    /\ ctx_call = NoCall
    /\ last_set = None
    /\ ErrIdle
    /\ PktIdle
    /\ ThrIdle
    /\ host_id = HOST_ID
    /\ next_frame_id = 0
    /\ custom_command_handler = FALSE
    /\ host_call = NoCall
    /\ request_id = 0
    /\ target_id = 0
    /\ client = NoCall
    /\ prev_write = None
    /\ c2s = <<>>
    /\ s2c = <<>>
    /\ server = "running"
    /\ srv_call = NoCall
    /\ peer = None
    /\ mtu \in {PACKET_HEADER_SIZE + FRAME_SIZE, MAX_UDP_PACKET_SIZE}
    /\ read_buffer = <<>>
    /\ write_buffer = <<>>
    /\ unflushed = <<>>
    /\ socket_sent = <<>>
    /\ udp_call = NoCall
    /\ socket_queue = <<>>
    /\ peer_request_id = [p \in Peers |-> 0]

\* The datagrams the clients send to the server, in all.
MaxDatagrams == 3

\* The requests the clients have sent, in all.
RequestsSent == peer_request_id["a"] + peer_request_id["b"]

\* The first half of communicate of the client at address p, on its own
\* UdpStream: the request is written and flushed as one datagram, which arrives
\* at the server's socket.
ClientDatagram ==
    /\ RequestsSent < MaxDatagrams
    /\ \E p \in Peers, request \in UdpRequests(RequestsSent + 1) :
          /\ socket_queue' =
                Append(socket_queue,
                       [from |-> p,
                        data |-> WritePacket(RequestFrame(request[1], peer_request_id[p],
                                                          request[2]),
                                             request[3])])
          /\ peer_request_id' = [peer_request_id EXCEPT ![p] = @ + 1]
    /\ UNCHANGED <<ctxVars, ctxCallVars, errVars, hostVars, ioVars, pktVars, thrVars,
                   peer, mtu, read_buffer, write_buffer, unflushed, socket_sent, udp_call>>

\* One iteration of the server's loop { processor.process_next()? } on the
\* UdpStream: the reads take the buffered bytes and then datagrams from the
\* socket, the reply is written to the write buffer and flushed.  The call
\* waits in recv_from while the bytes it asks for have not arrived.
UdpProcessNext ==
    /\ server = "running"
    /\ read_buffer # <<>> \/ socket_queue # <<>>
    /\ \E stream \in {read_buffer \o QueueBytes(socket_queue)} :
       \E r \in {process_next(stream, host_id, custom_command_handler, data,
                              register_flexible, overflow_checks, next_frame_id,
                              Ok(None))} :
          /\ r.res # Err(Error("Io", EofText))
          /\ \E after \in {UdpReadExact([peer |-> peer, read_buffer |-> read_buffer,
                                          queue |-> socket_queue],
                                         Len(stream) - Len(r.rest))} :
             \E flushed \in {IF r.out # <<>>
                              THEN flush(after.peer, mtu, write_buffer \o r.out,
                                         socket_sent)
                              ELSE [res |-> Ok(Unit), write_buffer |-> write_buffer,
                                    sent |-> socket_sent]} :
             \E res \in {IF flushed.res.tag = "Err"
                          THEN Err(Error("Io", flushed.res.err))
                          ELSE r.res} :
                /\ peer' = after.peer
                /\ read_buffer' = after.read_buffer
                /\ socket_queue' = after.queue
                /\ write_buffer' = flushed.write_buffer
                /\ socket_sent' = flushed.sent
                /\ data' = r.data
                /\ next_frame_id' = r.next_frame_id
                /\ host_call' = r.call
                /\ srv_call' = [op |-> "process_next", res |-> res, out |-> r.out,
                                read |-> Len(stream) - Len(r.rest)]
                /\ server' = CASE res.tag = "Ok" -> "running"
                               [] res.tag = "Err" -> "failed"
                               [] OTHER -> "panicked"
    /\ UNCHANGED <<register_flexible, register_size, overflow_checks, ctxCallVars, errVars,
                   host_id, custom_command_handler, request_id, target_id, client,
                   prev_write, c2s, s2c, pktVars, thrVars, mtu, unflushed, udp_call,
                   peer_request_id>>

NextUdpServe == ClientDatagram \/ UdpProcessNext

SpecUdpServe == InitUdpServe /\ [][NextUdpServe]_vars

----------------------------------------------------------------------------
(* One packet written to and read from a byte stream: SpecPkt.             *)

\* Values of a Frame's u32 fields.
PktFieldValues == {0, 258, 16909060}

\* Command codes: the six standard ones and codes that are none of them.
PktCodes ==
    {COMMAND_REPLY, COMMAND_ERROR, COMMAND_PING, COMMAND_READ_SHARED_CONTEXT,
     COMMAND_WRITE_SHARED_CONTEXT, COMMAND_WRITE_SHARED_CONTEXT_UNCONFIRMED,
     3, 32768, 65535}

PktFrames ==
    {Frame(src, tgt, id, irt, CommandFrom(c)) :
        src \in PktFieldValues, tgt \in PktFieldValues, id \in PktFieldValues,
        irt \in PktFieldValues, c \in PktCodes}

\* Streams that no Packet::write_to wrote: a header with a right or a wrong
\* magic, version 0 or 1 and a size below, at or above Frame::SIZE, followed by
\* a frame's buffer and MaxData bytes, or by nothing.
ForeignStreams ==
    {m \o <<v>> \o LE32(size) \o tail :
        m \in {<<82, 68>>, <<88, 68>>},
        v \in {VERSION, VERSION + 1},
        size \in {0, FRAME_SIZE - 1, FRAME_SIZE, FRAME_SIZE + MaxData},
        tail \in {<<>>, FrameBytes(Frame(1, 2, 3, 4, Ping)) \o <<0>> \o DataOf(1, MaxData)}}

InitPkt ==
    /\ CtxIdle
    /\ ErrIdle
    /\ HostIdle
    /\ IoIdle
    /\ ThrIdle
    /\ UdpIdle
    /\ pkt_read = None
    /\ \/ /\ pkt_frame \in PktFrames
          /\ \E len \in 0..MaxData : pkt_payload = DataOf(1, len)
          /\ pkt_wire = [bytes |-> <<>>, written |-> FALSE]
       \/ /\ pkt_frame = Frame(0, 0, 0, 0, Reply)
          /\ pkt_payload = <<>>
          /\ \E stream \in ForeignStreams : pkt_wire = [bytes |-> stream, written |-> FALSE]

\* Packet::new(frame, payload.len()).write_to(stream), then the payload.
PktWriteTo ==
    /\ pkt_wire.bytes = <<>>
    /\ ~pkt_wire.written
    /\ pkt_read = None
    /\ pkt_wire' = [bytes |-> PacketWriteTo(pkt_frame, Len(pkt_payload)) \o pkt_payload,
                    written |-> TRUE]
    /\ UNCHANGED <<ctxVars, ctxCallVars, errVars, hostVars, ioVars, thrVars, udpVars,
                   pkt_frame, pkt_payload, pkt_read>>

\* Packet::read_from(stream)
PktReadFrom ==
    /\ pkt_wire.bytes # <<>>
    /\ pkt_read = None
    /\ LET r == PacketReadFrom(pkt_wire.bytes)
       IN /\ pkt_read' = Some([res |-> r.res, stream |-> pkt_wire.bytes,
                               consumed |-> Len(pkt_wire.bytes) - Len(r.rest)])
          /\ pkt_wire' = [pkt_wire EXCEPT !.bytes = r.rest]
    /\ UNCHANGED <<ctxVars, ctxCallVars, errVars, hostVars, ioVars, thrVars, udpVars,
                   pkt_frame, pkt_payload>>

NextPkt == PktWriteTo \/ PktReadFrom

SpecPkt == InitPkt /\ [][NextPkt]_vars

\* C11: the bytes Packet::write_to writes, followed by the payload, carry version
\* 0x00 and size = 19 + payload length, and Packet::read_from on them returns
\* the same frame fields, the same command and data_len = the payload's length.
C11_PacketRoundTrip ==
    /\ (pkt_wire.written /\ pkt_read = None) =>
          /\ pkt_wire.bytes[3] = 0
          /\ FromLE32(SubSeq(pkt_wire.bytes, 4, 7)) = 19 + Len(pkt_payload)
          /\ Len(pkt_wire.bytes) = 7 + 19 + Len(pkt_payload)
    /\ (pkt_wire.written /\ pkt_read.some) =>
          /\ pkt_read.val.res = Ok([frame |-> pkt_frame, data_len |-> Len(pkt_payload)])
          /\ pkt_wire.bytes = pkt_payload

\* C11 witness: a frame with four different field values and a custom command
\* has been written with a non-empty payload and read back.
C11_Witness ==
    /\ pkt_wire.written
    /\ pkt_read.some
    /\ pkt_frame = Frame(258, 0, 16909060, 258, Other(32768))
    /\ pkt_payload # <<>>
    /\ IsOk(pkt_read.val.res)

\* C15: Packet::read_from fails with UnsupportedVersion when the header's magic
\* is not "RD" or its version is not 0x00, fails with InvalidData when magic and
\* version are valid and size < 19, and otherwise reads exactly 19 more bytes
\* and succeeds with data_len = size - 19.
C15_ReadFromChecks ==
    (pkt_read.some /\ Len(pkt_read.val.stream) >= 7) =>
        LET stream == pkt_read.val.stream
            size == FromLE32(SubSeq(stream, 4, 7))
        IN IF SubSeq(stream, 1, 2) # <<82, 68>> \/ stream[3] # 0
           THEN pkt_read.val.res = Err(UnsupportedVersion)
           ELSE IF size < 19
           THEN pkt_read.val.res = Err(InvalidData)
           ELSE Len(stream) >= 7 + 19 =>
                   /\ IsOk(pkt_read.val.res)
                   /\ pkt_read.val.consumed = 7 + 19
                   /\ pkt_read.val.res.val.data_len = size - 19

----------------------------------------------------------------------------
(* The error codec: SpecErr.                                               *)

InitErr ==
    /\ err_in \in Errors
    /\ err_wire = None
    /\ err_out = None
    /\ CtxIdle
    /\ HostIdle
    /\ IoIdle
    /\ AuxIdle

\* Vec::<u8>::from(err)
ErrEncode ==
    /\ err_wire = None
    /\ err_wire' = Some(ErrorToBytes(err_in))
    /\ UNCHANGED <<auxVars, err_in, err_out, ctxVars, ctxCallVars, hostVars, ioVars>>

\* Error::from(&bytes[..])
ErrDecode ==
    /\ err_wire.some
    /\ err_out = None
    /\ err_out' = Some(ErrorFromBytes(err_wire.val))
    /\ UNCHANGED <<auxVars, err_in, err_wire, ctxVars, ctxCallVars, hostVars, ioVars>>

NextErr == ErrEncode \/ ErrDecode

SpecErr == InitErr /\ [][NextErr]_vars

\* C10, as claimed: for every variant err of Error, decoding the bytes that
\* encode err yields an error with the same 16-bit code.
C10_CodeRoundTrip ==
    err_out.some => code(err_out.val) = code(err_in)

====
